---------------------------- MODULE Spec2Model ----------------------------
(***************************************************************************)
(* A model of the 3Dtourio backend: the Firestore collections teams,       *)
(* users, spaces and tours, the storage bucket, the generation provider's  *)
(* operations, and the Express route handlers that act on them.  A handler *)
(* is a sequence of steps, one per awaited database, storage or provider   *)
(* call; handlers of different requests interleave between steps.          *)
(***************************************************************************)
EXTENDS Naturals, Integers, Sequences, FiniteSets, TLC

(***************************************************************************)
(* Bounds of the model.                                                    *)
(***************************************************************************)
MaxReq == 3
\* number of requests to the team routes in one behaviour

MaxTeams == 4
\* team ids randomUUID may hand out

MaxCodes == 4
\* invite codes generateInviteCode may hand out

MaxSpaces == 2
\* space ids randomUUID may hand out

MaxTours == 2
\* tour ids randomUUID may hand out

MaxCalls == 2
\* number of requests to the space and tour routes in one behaviour

MaxOps == 2
\* operations the generation provider may be asked for

Users == {"u1", "u2"}
Callers == Users \cup {"anon"}
Slots == 1..2
TeamIds == 1..MaxTeams
SpaceIds == 1..MaxSpaces
TourIds == 1..MaxTours
Names == {"n0", "n1"}
Labels == {"a", "b"}

VARIABLES
  teams,      \* collection "teams": team id -> document
  users,      \* collection "users": uid -> document
  spaces,     \* collection "spaces": space id -> document
  tours,      \* collection "tours": tour id -> document
  files,      \* the storage bucket: the set of object paths <<prefix, spaceId>>
  operations, \* the generation provider: operation id -> its state
  cleanup,    \* the detached deleteSpaceFiles tasks: space id -> position
  reqs,       \* the requests in flight: slot -> handler position and locals
  last,       \* what the step just taken did: its request and its response
  left,       \* number of requests that may still be started
  fresh,      \* the next unused id of each kind (randomUUID, randomBytes)
  hist        \* history: what completed requests have done

vars ==
  <<teams, users, spaces, tours, files, operations, cleanup, reqs, last,
    left, fresh, hist>>

content == <<spaces, tours>>

external == <<files, operations, cleanup>>

(***************************************************************************)
(* Documents.                                                              *)
(***************************************************************************)
NoTeam ==
  [exists |-> FALSE, type |-> "none", ownerId |-> "", memberIds |-> <<>>,
   inviteCode |-> 0, inviteEnabled |-> FALSE, name |-> ""]

NoUserDoc ==
  [exists |-> FALSE, onboardingComplete |-> FALSE, teamIds |-> <<>>,
   activeTeamId |-> 0]

NoSpace ==
  [exists |-> FALSE, teamId |-> 0, name |-> "", status |-> "none",
   operationId |-> 0, worldId |-> 0, assetUrls |-> {}, errorMessage |-> 0]

NoTour ==
  [exists |-> FALSE, teamId |-> 0, name |-> "", rooms |-> <<>>,
   isPublic |-> FALSE, shareToken |-> 0]

\* A space as POST /api/spaces creates it.
NewSpace(teamId) ==
  [exists |-> TRUE, teamId |-> teamId, name |-> "n0", status |-> "uploading",
   operationId |-> 0, worldId |-> 0, assetUrls |-> {}, errorMessage |-> 0]

\* A tour as POST /api/tours creates it.
NewTour(teamId, token) ==
  [exists |-> TRUE, teamId |-> teamId, name |-> "n0", rooms |-> <<>>,
   isPublic |-> TRUE, shareToken |-> token]

Range(s) == {s[i] : i \in 1..Len(s)}

Includes(s, x) == x \in Range(s)

Filter(s, x) == SelectSeq(s, LAMBDA y : y # x)

arrayUnion(s, x) == IF Includes(s, x) THEN s ELSE Append(s, x)

arrayRemove(s, x) == Filter(s, x)

(***************************************************************************)
(* Requests.  A request in flight holds the handler's position (pc) and    *)
(* its local variables; auth and late are history fields used to state     *)
(* properties.                                                             *)
(***************************************************************************)
Idle ==
  [op |-> "idle", pc |-> "", uid |-> "", tid |-> 0, ent |-> 0, arg |-> 0,
   name |-> "", flag |-> FALSE, n |-> 0, set |-> {},
   team |-> NoTeam, udoc |-> NoUserDoc,
   mteams |-> [t \in TeamIds |-> NoTeam],
   sdoc |-> NoSpace, tdoc |-> NoTour, label |-> "", valid |-> TRUE,
   upd |-> <<>>, imgs |-> "none",
   auth |-> {}, late |-> FALSE, entTeam |-> 0, retTeams |-> {},
   embTeams |-> {}, seen |-> "", pending |-> {}, urls |-> {}, body |-> ""]

Req(op, uid, tid) == [Idle EXCEPT !.op = op, !.uid = uid, !.tid = tid]

NoStep == [req |-> Idle, code |-> 0]

CanStart == left > 0

\* A new request takes the lowest free slot.
Free(r) ==
  /\ CanStart
  /\ reqs[r].op = "idle"
  /\ \A q \in Slots : q < r => reqs[q].op # "idle"

At(r, op, pc) == reqs[r].op = op /\ reqs[r].pc = pc

\* The handler goes on to its next awaited call.
Goto(r, q) ==
  /\ reqs' = [reqs EXCEPT ![r] = q]
  /\ last' = NoStep

\* The handler has written and goes on to its next awaited call.
Step(r, q) ==
  /\ reqs' = [reqs EXCEPT ![r] = q]
  /\ last' = [req |-> q, code |-> 0]

\* The handler responds with status `code` and ends.
Respond(r, q, code) ==
  /\ reqs' = [reqs EXCEPT ![r] = Idle]
  /\ last' = [req |-> q, code |-> code]

MemberTeams(uid) ==
  {t \in TeamIds : teams[t].exists /\ Includes(teams[t].memberIds, uid)}

(***************************************************************************)
(* lib/teams.ts                                                            *)
(***************************************************************************)
getTeam(id) == teams[id]

IsMember(team, uid) == team.exists /\ Includes(team.memberIds, uid)

\* The documents matching the invite query; limit(1) returns any one.
getTeamByInviteCode(code) ==
  {t \in TeamIds :
     teams[t].exists /\ teams[t].inviteCode = code /\ teams[t].inviteEnabled}

\* merged = { ...doc.data(), ...updates }, one updated field at a time.
Merged(doc, field, value) ==
  CASE field = "name" -> [doc EXCEPT !.name = value]
    [] field = "inviteCode" -> [doc EXCEPT !.inviteCode = value]
    [] field = "inviteEnabled" -> [doc EXCEPT !.inviteEnabled = value]

\* The transaction's new document (the old one when it writes nothing).
addMemberToTeam(team, uid) ==
  IF ~team.exists THEN team
  ELSE IF Includes(team.memberIds, uid) THEN team
  ELSE [team EXCEPT !.memberIds = Append(@, uid)]

removeMemberFromTeam(team, uid) ==
  IF ~team.exists THEN team
  ELSE IF team.ownerId = uid THEN team
  ELSE IF team.type = "personal" THEN team
  ELSE [team EXCEPT !.memberIds = Filter(@, uid)]

NewTeam(type, uid, name, code, enabled) ==
  [exists |-> TRUE, type |-> type, ownerId |-> uid, memberIds |-> <<uid>>,
   inviteCode |-> code, inviteEnabled |-> enabled, name |-> name]

(***************************************************************************)
(* lib/storage.ts and lib/tours.ts: the queries by team.                   *)
(***************************************************************************)
getAllSpaces(teamId) ==
  {s \in SpaceIds : spaces[s].exists /\ spaces[s].teamId = teamId}

getAllTours(teamId) ==
  {t \in TourIds : tours[t].exists /\ tours[t].teamId = teamId}

(***************************************************************************)
(* routes/auth.ts                                                          *)
(***************************************************************************)
\* verifyAuthToken(req) is not null: the request carries a bearer token or
\* a session cookie that the auth provider accepts.  The caller "anon"
\* stands for a request with no credentials or with rejected ones.
verifyAuthToken_Any(c) ==
  TRUE

verifyAuthToken(c) ==
  c \in Users

\* The team of the onboarding batch, with its invites switched on.
OnboardingTeam_InviteEnabled(u, code) ==
  NewTeam("personal", u, "n0", code, TRUE)

\* The team and the user document that the onboarding batch sets.
OnboardingTeam(u, code) ==
  NewTeam("personal", u, "n0", code, FALSE)

OnboardingUser(teamId) ==
  [exists |-> TRUE, onboardingComplete |-> TRUE, teamIds |-> <<teamId>>,
   activeTeamId |-> teamId]

\* POST /api/auth/onboarding by caller c with a valid or an invalid body:
\* one batch writes the personal team and the user document (set with
\* merge: activeTeamId and teamIds are overwritten).
Onboarding(c, valid) ==
  /\ CanStart
  /\ left' = left - 1
  /\ LET q == [Req("onboarding", c, 0) EXCEPT !.valid = valid]
     IN IF ~verifyAuthToken(c)
          THEN /\ last' = [req |-> q, code |-> 401]
               /\ UNCHANGED <<teams, users, fresh>>
        ELSE IF ~valid
          THEN /\ last' = [req |-> q, code |-> 400]
               /\ UNCHANGED <<teams, users, fresh>>
        ELSE /\ fresh.team <= MaxTeams
             /\ fresh.code <= MaxCodes
             /\ teams' = [teams EXCEPT ![fresh.team] =
                            OnboardingTeam(c, fresh.code)]
             /\ users' = [users EXCEPT ![c] = OnboardingUser(fresh.team)]
             /\ fresh' = [fresh EXCEPT !.team = @ + 1, !.code = @ + 1]
             /\ last' = [req |-> [q EXCEPT !.tid = fresh.team], code |-> 200]
  /\ UNCHANGED <<reqs, hist, content, external>>

\* DELETE /api/auth/me, first query: organization teams the caller owns.
OwnedOrgTeams(uid) ==
  {t \in TeamIds :
     teams[t].exists /\ teams[t].ownerId = uid
       /\ teams[t].type = "organization"}

DeleteMeOwned(r, u) ==
  /\ Free(r)
  /\ left' = left - 1
  /\ IF ~verifyAuthToken(u)
       THEN Respond(r, Req("deleteMe", u, 0), 401)
     ELSE IF OwnedOrgTeams(u) # {}
       THEN Respond(r, Req("deleteMe", u, 0), 400)
       ELSE Goto(r, [Req("deleteMe", u, 0) EXCEPT !.pc = "members"])
  /\ UNCHANGED <<teams, users, fresh, hist, content, external>>

\* Second query: the teams whose memberIds contain the caller.
DeleteMeMembers(r) ==
  /\ At(r, "deleteMe", "members")
  /\ Goto(r, [reqs[r] EXCEPT
                !.pc = "commit",
                !.mteams = [t \in TeamIds |->
                              IF IsMember(teams[t], reqs[r].uid)
                                THEN teams[t] ELSE NoTeam]])
  /\ UNCHANGED <<teams, users, left, fresh, hist, content, external>>

\* What the batch makes of team t, from the snapshot the query returned.
DeleteMeBatch(snap, cur, uid) ==
  IF ~snap.exists THEN cur
  ELSE IF snap.type = "personal" THEN NoTeam
  ELSE [cur EXCEPT !.memberIds = Filter(snap.memberIds, uid)]

\* The batch commit: it fails as a whole when an updated team is gone.
DeleteMeCommit(r) ==
  /\ At(r, "deleteMe", "commit")
  /\ LET q == reqs[r]
         gone == {t \in TeamIds :
                    q.mteams[t].exists /\ q.mteams[t].type # "personal"
                      /\ ~teams[t].exists}
     IN IF gone # {}
          THEN /\ Respond(r, q, 500)
               /\ UNCHANGED <<teams, users>>
          ELSE /\ teams' = [t \in TeamIds |->
                              DeleteMeBatch(q.mteams[t], teams[t], q.uid)]
               /\ users' = [users EXCEPT ![q.uid] = NoUserDoc]
               /\ Respond(r, q, 200)
  /\ UNCHANGED <<left, fresh, hist, content, external>>

(***************************************************************************)
(* routes/teams.ts                                                         *)
(***************************************************************************)
\* POST /api/teams: one batch sets the team and updates the user document;
\* the update, and with it the batch, fails when the user document is gone.
PostTeams(u, name) ==
  /\ CanStart
  /\ fresh.team <= MaxTeams
  /\ fresh.code <= MaxCodes
  /\ left' = left - 1
  /\ IF ~verifyAuthToken(u)
       THEN /\ last' = [req |-> Req("createTeam", u, 0), code |-> 401]
            /\ UNCHANGED <<teams, users, fresh>>
     ELSE IF users[u].exists
       THEN /\ teams' = [teams EXCEPT ![fresh.team] =
                           NewTeam("organization", u, name, fresh.code, TRUE)]
            /\ users' = [users EXCEPT ![u].teamIds =
                           arrayUnion(@, fresh.team)]
            /\ fresh' = [fresh EXCEPT !.team = @ + 1, !.code = @ + 1]
            /\ last' = [req |-> Req("createTeam", u, fresh.team),
                        code |-> 201]
       ELSE /\ last' = [req |-> Req("createTeam", u, 0), code |-> 500]
            /\ UNCHANGED <<teams, users, fresh>>
  /\ UNCHANGED <<reqs, hist, content, external>>

\* GET /api/teams/join?code=...: preview, no auth.
GetTeamsJoin(code) ==
  /\ CanStart
  /\ left' = left - 1
  /\ LET q == [Req("preview", "", 0) EXCEPT
                 !.arg = code, !.late = code \in hist.retired]
     IN IF getTeamByInviteCode(code) = {}
          THEN last' = [req |-> q, code |-> 404]
          ELSE \E t \in getTeamByInviteCode(code) :
                 last' = [req |-> [q EXCEPT !.tid = t], code |-> 200]
  /\ UNCHANGED <<teams, users, reqs, fresh, hist, content, external>>

\* POST /api/teams/join: the lookup by invite code and the membership test.
JoinLookup(r, u, code) ==
  /\ Free(r)
  /\ left' = left - 1
  /\ LET q == [Req("join", u, 0) EXCEPT
                 !.arg = code, !.late = code \in hist.retired]
     IN IF ~verifyAuthToken(u) THEN Respond(r, q, 401)
        ELSE IF getTeamByInviteCode(code) = {}
          THEN Respond(r, q, 404)
          ELSE \E t \in getTeamByInviteCode(code) :
                 IF Includes(teams[t].memberIds, u)
                   THEN Respond(r, [q EXCEPT !.tid = t], 409)
                   ELSE Goto(r, [q EXCEPT !.tid = t, !.pc = "add",
                                          !.team = teams[t]])
  /\ UNCHANGED <<teams, users, fresh, hist, content, external>>

\* await addMemberToTeam(team.id, decoded.uid): the transaction.
JoinAddMember(r) ==
  /\ At(r, "join", "add")
  /\ teams' = [teams EXCEPT ![reqs[r].tid] = addMemberToTeam(@, reqs[r].uid)]
  /\ Goto(r, [reqs[r] EXCEPT !.pc = "user"])
  /\ UNCHANGED <<users, left, fresh, hist, content, external>>

\* The user document's update; it throws when the document is gone.
JoinUpdateUser(r) ==
  /\ At(r, "join", "user")
  /\ LET q == reqs[r]
     IN IF users[q.uid].exists
          THEN /\ users' = [users EXCEPT ![q.uid].teamIds =
                              arrayUnion(@, q.tid)]
               /\ Respond(r, q, 200)
          ELSE /\ Respond(r, q, 500)
               /\ UNCHANGED users
  /\ UNCHANGED <<teams, left, fresh, hist, content, external>>

\* The checks that PATCH /:id, POST /:id/invite and PATCH /:id/invite make
\* on the team they read: 0 when the handler goes on.
MemberCheck(team, uid) == IF ~IsMember(team, uid) THEN 404 ELSE 0

UpdateField(op) ==
  CASE op = "rename" -> "name"
    [] op = "rotate" -> "inviteCode"
    [] op = "toggle" -> "inviteEnabled"

UpdateValue(q) ==
  CASE q.op = "rename" -> q.name
    [] q.op = "rotate" -> q.arg
    [] q.op = "toggle" -> q.flag

\* The handler's getTeam and membership test; then updateTeam is called.
UpdateTeamStart(r, q) ==
  /\ Free(r)
  /\ left' = left - 1
  /\ IF ~verifyAuthToken(q.uid) THEN Respond(r, q, 401)
     ELSE IF MemberCheck(getTeam(q.tid), q.uid) # 0
       THEN Respond(r, q, MemberCheck(getTeam(q.tid), q.uid))
       ELSE Goto(r, [q EXCEPT !.pc = "get"])
  /\ UNCHANGED <<teams, users, hist, content, external>>

\* PATCH /api/teams/:id
PatchTeam(r, u, t, name) ==
  /\ UpdateTeamStart(r, [Req("rename", u, t) EXCEPT !.name = name])
  /\ UNCHANGED fresh

\* POST /api/teams/:id/invite
PostInvite(r, u, t) ==
  /\ fresh.code <= MaxCodes
  /\ UpdateTeamStart(r, [Req("rotate", u, t) EXCEPT !.arg = fresh.code])
  /\ fresh' = [fresh EXCEPT !.code = @ + 1]

\* PATCH /api/teams/:id/invite
PatchInvite(r, u, t, enabled) ==
  /\ UpdateTeamStart(r, [Req("toggle", u, t) EXCEPT !.flag = enabled])
  /\ UNCHANGED fresh

IsUpdateTeam(r) == reqs[r].op \in {"rename", "rotate", "toggle"}

\* updateTeam: const doc = await ref.get(); null when the team is gone.
updateTeamGet(r) ==
  /\ IsUpdateTeam(r)
  /\ reqs[r].pc = "get"
  /\ IF ~teams[reqs[r].tid].exists
       THEN Respond(r, reqs[r], 200)
       ELSE Goto(r, [reqs[r] EXCEPT
                       !.pc = "set", !.team = teams[reqs[r].tid]])
  /\ UNCHANGED <<teams, users, left, fresh, hist, content, external>>

\* updateTeam: await ref.set(merged, { merge: true }), merged from the
\* document read before.
updateTeamSet(r) ==
  /\ IsUpdateTeam(r)
  /\ reqs[r].pc = "set"
  /\ LET q == reqs[r]
     IN /\ teams' = [teams EXCEPT ![q.tid] =
                       Merged(q.team, UpdateField(q.op), UpdateValue(q))]
        /\ hist' = IF q.op = "rotate" /\ teams[q.tid].exists
                     THEN [hist EXCEPT !.retired =
                             @ \cup {teams[q.tid].inviteCode}]
                     ELSE hist
        /\ Respond(r, q, 200)
  /\ UNCHANGED <<users, left, fresh, content, external>>

\* DeleteTeamCheck without its test for a personal team.
DeleteTeamCheck_NoPersonalTest(team, uid) ==
  IF ~IsMember(team, uid) THEN 404
  ELSE IF team.ownerId # uid THEN 403
  ELSE 0

\* DeleteTeamCheck without its test for the owner.
DeleteTeamCheck_NoOwnerTest(team, uid) ==
  IF ~IsMember(team, uid) THEN 404
  ELSE IF team.type = "personal" THEN 400
  ELSE 0

\* DELETE /api/teams/:id: the checks on the team read; 0 to go on.
DeleteTeamCheck(team, uid) ==
  IF ~IsMember(team, uid) THEN 404
  ELSE IF team.type = "personal" THEN 400
  ELSE IF team.ownerId # uid THEN 403
  ELSE 0

DeleteTeamGet(r, u, t) ==
  /\ Free(r)
  /\ left' = left - 1
  /\ LET q == [Req("deleteTeam", u, t) EXCEPT !.team = getTeam(t)]
     IN IF ~verifyAuthToken(u) THEN Respond(r, Req("deleteTeam", u, t), 401)
        ELSE IF DeleteTeamCheck(getTeam(t), u) # 0
          THEN Respond(r, q, DeleteTeamCheck(getTeam(t), u))
          ELSE Goto(r, [q EXCEPT !.pc = "spaces"])
  /\ UNCHANGED <<teams, users, fresh, hist, content, external>>

\* const spaces = await getAllSpaces(id)
DeleteTeamSpaces(r) ==
  /\ At(r, "deleteTeam", "spaces")
  /\ Goto(r, [reqs[r] EXCEPT
                !.pc = "tours",
                !.n = Cardinality(getAllSpaces(reqs[r].tid))])
  /\ UNCHANGED <<teams, users, left, fresh, hist, content, external>>

\* const tours = await getAllTours(id), and the emptiness test
DeleteTeamTours(r) ==
  /\ At(r, "deleteTeam", "tours")
  /\ IF reqs[r].n > 0 \/ Cardinality(getAllTours(reqs[r].tid)) > 0
       THEN Respond(r, reqs[r], 400)
       ELSE Goto(r, [reqs[r] EXCEPT !.pc = "delete"])
  /\ UNCHANGED <<teams, users, left, fresh, hist, content, external>>

\* await deleteTeam(id)
DeleteTeamDelete(r) ==
  /\ At(r, "deleteTeam", "delete")
  /\ teams' = [teams EXCEPT ![reqs[r].tid] = NoTeam]
  /\ hist' = IF teams[reqs[r].tid].exists
               THEN [hist EXCEPT !.deletedTeams = @ \cup {reqs[r].tid}]
               ELSE hist
  /\ Respond(r, reqs[r], 200)
  /\ UNCHANGED <<users, left, fresh, content, external>>

\* DELETE /api/teams/:id/members: the checks on the team read; 0 to go on.
LeaveCheck(team, uid) ==
  IF ~IsMember(team, uid) THEN 404
  ELSE IF team.type = "personal" THEN 400
  ELSE IF team.ownerId = uid THEN 400
  ELSE 0

LeaveGet(r, u, t) ==
  /\ Free(r)
  /\ left' = left - 1
  /\ LET q == [Req("leave", u, t) EXCEPT !.team = getTeam(t)]
     IN IF ~verifyAuthToken(u) THEN Respond(r, Req("leave", u, t), 401)
        ELSE IF LeaveCheck(getTeam(t), u) # 0
          THEN Respond(r, q, LeaveCheck(getTeam(t), u))
          ELSE Goto(r, [q EXCEPT !.pc = "remove"])
  /\ UNCHANGED <<teams, users, fresh, hist, content, external>>

\* await removeMemberFromTeam(id, decoded.uid): the transaction.
LeaveRemove(r) ==
  /\ At(r, "leave", "remove")
  /\ teams' = [teams EXCEPT ![reqs[r].tid] =
                 removeMemberFromTeam(@, reqs[r].uid)]
  /\ Goto(r, [reqs[r] EXCEPT !.pc = "userGet"])
  /\ UNCHANGED <<users, left, fresh, hist, content, external>>

\* const userDoc = await userRef.get()
LeaveUserGet(r) ==
  /\ At(r, "leave", "userGet")
  /\ Goto(r, [reqs[r] EXCEPT !.pc = "userUpdate",
                             !.udoc = users[reqs[r].uid]])
  /\ UNCHANGED <<teams, users, left, fresh, hist, content, external>>

\* userData?.teamIds?.find((tid) => tid !== id) || null, null being 0
FirstOther(teamIds, id) ==
  IF Filter(teamIds, id) = <<>> THEN 0 ELSE Head(Filter(teamIds, id))

\* await userRef.update({ teamIds: arrayRemove(id), activeTeamId })
LeaveUserUpdate(r) ==
  /\ At(r, "leave", "userUpdate")
  /\ LET q == reqs[r]
     IN IF users[q.uid].exists
          THEN /\ users' = [users EXCEPT
                              ![q.uid].teamIds = arrayRemove(@, q.tid),
                              ![q.uid].activeTeamId =
                                 FirstOther(q.udoc.teamIds, q.tid)]
               /\ Respond(r, q, 200)
          ELSE /\ Respond(r, q, 500)
               /\ UNCHANGED users
  /\ UNCHANGED <<teams, left, fresh, hist, content, external>>

(***************************************************************************)
(* lib/auth.ts                                                             *)
(***************************************************************************)
\* resolveAuthContext without its membership test.
resolveAuthContext_NoMemberTest(uid, teamId) ==
  /\ verifyAuthToken(uid)
  /\ teamId # 0
  /\ teams[teamId].exists

\* resolveAuthContext(req) is not null: the token is verified, the request
\* has an x-team-id header (teamId 0 stands for none), the team it names
\* exists and its memberIds include the caller.
resolveAuthContext(uid, teamId) ==
  /\ verifyAuthToken(uid)
  /\ teamId # 0
  /\ teams[teamId].exists
  /\ Includes(teams[teamId].memberIds, uid)

\* The first step of every team-scoped handler; q holds the request with
\* pc at the handler's next call.  auth records the teams the caller is a
\* member of at this moment.
Begin(r, q) ==
  /\ Free(r)
  /\ left' = left - 1
  /\ IF resolveAuthContext(q.uid, q.tid)
       THEN Goto(r, [q EXCEPT !.auth = MemberTeams(q.uid)])
       ELSE Respond(r, [q EXCEPT !.pc = "", !.auth = MemberTeams(q.uid)], 401)
  /\ UNCHANGED <<teams, users, fresh, hist, content, external>>

Call(op, pc, uid, teamId, ent) ==
  [Req(op, uid, teamId) EXCEPT !.pc = pc, !.ent = ent]

\* { ...doc.data(), ...updates }
Merge(doc, updates) ==
  [f \in DOMAIN doc |-> IF f \in DOMAIN updates THEN updates[f] ELSE doc[f]]

(***************************************************************************)
(* routes/spaces.ts                                                        *)
(***************************************************************************)
\* The handlers' test of the space read: !space || space.teamId !== ctx.teamId
SpaceHidden(space, teamId) == ~space.exists \/ space.teamId # teamId

\* GET /api/spaces
ListSpaces(r, u, x) == Begin(r, Call("listSpaces", "list", u, x, 0))

ListSpacesQuery(r) ==
  /\ At(r, "listSpaces", "list")
  /\ Respond(r, [reqs[r] EXCEPT
                   !.set = getAllSpaces(reqs[r].tid),
                   !.retTeams = {spaces[s].teamId :
                                   s \in getAllSpaces(reqs[r].tid)}], 200)
  /\ UNCHANGED <<teams, users, left, fresh, hist, content, external>>

\* POST /api/spaces
PostSpaces(r, u, x) ==
  /\ fresh.space <= MaxSpaces
  /\ Begin(r, Call("createSpace", "create", u, x, 0))

\* await createSpace(space)
PostSpacesCreate(r) ==
  /\ At(r, "createSpace", "create")
  /\ fresh.space <= MaxSpaces
  /\ spaces' = [spaces EXCEPT ![fresh.space] = NewSpace(reqs[r].tid)]
  /\ fresh' = [fresh EXCEPT !.space = @ + 1]
  /\ Respond(r, [reqs[r] EXCEPT !.ent = fresh.space], 201)
  /\ UNCHANGED <<teams, users, tours, left, hist, external>>

\* GET /api/spaces/:id
GetSpace(r, u, x, s) == Begin(r, Call("getSpace", "get", u, x, s))

GetSpaceRead(r) ==
  /\ At(r, "getSpace", "get")
  /\ LET q == reqs[r]
     IN IF SpaceHidden(spaces[q.ent], q.tid)
          THEN Respond(r, q, 404)
          ELSE Respond(r, [q EXCEPT !.sdoc = spaces[q.ent],
                                    !.entTeam = spaces[q.ent].teamId], 200)
  /\ UNCHANGED <<teams, users, left, fresh, hist, content, external>>

\* PATCH /api/spaces/:id; the body is valid or not.
PatchSpace(r, u, x, s, valid) ==
  Begin(r, [Call("patchSpace", "check", u, x, s) EXCEPT
              !.upd = [name |-> "n1"], !.valid = valid])

\* const existing = await getSpace(id), then the schema
PatchSpaceCheck(r) ==
  /\ At(r, "patchSpace", "check")
  /\ LET q == reqs[r]
     IN IF SpaceHidden(spaces[q.ent], q.tid) THEN Respond(r, q, 404)
        ELSE IF ~q.valid THEN Respond(r, q, 400)
        ELSE Goto(r, [q EXCEPT !.pc = "get",
                               !.entTeam = spaces[q.ent].teamId])
  /\ UNCHANGED <<teams, users, left, fresh, hist, content, external>>

\* updateSpace: const doc = await ref.get(); null when the space is gone.
PatchSpaceGet(r) ==
  /\ At(r, "patchSpace", "get")
  /\ IF ~spaces[reqs[r].ent].exists
       THEN Respond(r, reqs[r], 200)
       ELSE Goto(r, [reqs[r] EXCEPT !.pc = "set",
                                    !.sdoc = spaces[reqs[r].ent]])
  /\ UNCHANGED <<teams, users, left, fresh, hist, content, external>>

\* updateSpace: await ref.set(merged, { merge: true })
PatchSpaceSet(r) ==
  /\ At(r, "patchSpace", "set")
  /\ spaces' = [spaces EXCEPT ![reqs[r].ent] =
                  Merge(reqs[r].sdoc, reqs[r].upd)]
  /\ Respond(r, reqs[r], 200)
  /\ UNCHANGED <<teams, users, tours, left, fresh, hist, external>>

\* DELETE /api/spaces/:id
DeleteSpace(r, u, x, s) == Begin(r, Call("deleteSpace", "check", u, x, s))

DeleteSpaceCheck(r) ==
  /\ At(r, "deleteSpace", "check")
  /\ LET q == reqs[r]
     IN IF SpaceHidden(spaces[q.ent], q.tid) THEN Respond(r, q, 404)
        ELSE Goto(r, [q EXCEPT !.pc = "delete",
                               !.entTeam = spaces[q.ent].teamId])
  /\ UNCHANGED <<teams, users, left, fresh, hist, content, external>>

\* await deleteSpace(id); then deleteSpaceFiles(id) is left, not awaited.
DeleteSpaceDelete(r) ==
  /\ At(r, "deleteSpace", "delete")
  /\ spaces' = [spaces EXCEPT ![reqs[r].ent] = NoSpace]
  /\ cleanup' = [cleanup EXCEPT ![reqs[r].ent] = "listModels"]
  /\ Step(r, [reqs[r] EXCEPT !.pc = "tours"])
  /\ UNCHANGED <<teams, users, tours, files, operations, left, fresh, hist>>

HasRoom(tour, s) == \E i \in 1..Len(tour.rooms) : tour.rooms[i].spaceId = s

\* const tours = await getAllTours(ctx.teamId): those with a room of the space
DeleteSpaceTours(r) ==
  /\ At(r, "deleteSpace", "tours")
  /\ LET q == reqs[r]
         hit == {t \in getAllTours(q.tid) : HasRoom(tours[t], q.ent)}
     IN IF hit = {}
          THEN /\ Respond(r, q, 200)
               /\ hist' = [hist EXCEPT !.deletedSpaces =
                             @ \cup {<<q.tid, q.ent>>}]
          ELSE /\ Goto(r, [q EXCEPT !.pc = "cascade", !.set = hit])
               /\ UNCHANGED hist
  /\ UNCHANGED <<teams, users, left, fresh, content, external>>

(***************************************************************************)
(* lib/tours.ts                                                            *)
(***************************************************************************)
WithoutSpace(rooms, s) == SelectSeq(rooms, LAMBDA room : room.spaceId # s)

\* rooms.sort((a, b) => a.order - b.order): the sort is stable, a room is
\* placed behind the rooms whose order is not greater.
RECURSIVE InsertRoom(_, _)
InsertRoom(sorted, room) ==
  IF sorted = <<>> THEN <<room>>
  ELSE IF Head(sorted).order <= room.order
         THEN <<Head(sorted)>> \o InsertRoom(Tail(sorted), room)
         ELSE <<room>> \o sorted

RECURSIVE SortRooms(_)
SortRooms(rooms) ==
  IF rooms = <<>> THEN <<>>
  ELSE InsertRoom(SortRooms(SubSeq(rooms, 1, Len(rooms) - 1)),
                  rooms[Len(rooms)])

\* addRoomToTour without its filter of the rooms of the same space.
addRoomToTour_NoFilter(tour, room) ==
  IF ~tour.exists THEN tour
  ELSE [tour EXCEPT !.rooms = SortRooms(Append(tour.rooms, room))]

\* The transactions' new document (the old one when the tour is gone).
addRoomToTour(tour, room) ==
  IF ~tour.exists THEN tour
  ELSE [tour EXCEPT !.rooms =
          SortRooms(Append(WithoutSpace(tour.rooms, room.spaceId), room))]

removeRoomFromTour(tour, s) ==
  IF ~tour.exists THEN tour
  ELSE [tour EXCEPT !.rooms = WithoutSpace(tour.rooms, s)]

RoomSpaces(tour) == {tour.rooms[i].spaceId : i \in 1..Len(tour.rooms)}

\* getSpacesByIds(ids): the documents that exist, of whatever team.
getSpacesByIds(ids) == {s \in ids : spaces[s].exists}

(***************************************************************************)
(* routes/spaces.ts, the cascade of DELETE /api/spaces/:id                 *)
(***************************************************************************)
Latest(ids) == CHOOSE t \in ids : \A o \in ids : o <= t

\* await removeRoomFromTour(tour.id, id), tour by tour (createdAt desc)
DeleteSpaceCascade(r) ==
  /\ At(r, "deleteSpace", "cascade")
  /\ LET q == reqs[r]
         t == Latest(q.set)
     IN /\ tours' = [tours EXCEPT ![t] = removeRoomFromTour(@, q.ent)]
        /\ IF q.set = {t}
             THEN /\ Respond(r, [q EXCEPT !.set = {}], 200)
                  /\ hist' = [hist EXCEPT !.deletedSpaces =
                                @ \cup {<<q.tid, q.ent>>}]
             ELSE /\ Step(r, [q EXCEPT !.set = @ \ {t}])
                  /\ UNCHANGED hist
  /\ UNCHANGED <<teams, users, spaces, left, fresh, external>>

(***************************************************************************)
(* routes/tours.ts                                                         *)
(***************************************************************************)
TourHidden(tour, teamId) == ~tour.exists \/ tour.teamId # teamId

\* GET /api/tours
ListTours(r, u, x) == Begin(r, Call("listTours", "list", u, x, 0))

\* const tours = await getAllTours(ctx.teamId), and the ids of their rooms
ListToursQuery(r) ==
  /\ At(r, "listTours", "list")
  /\ LET found == getAllTours(reqs[r].tid)
     IN Goto(r, [reqs[r] EXCEPT
                   !.pc = "spaces",
                   !.retTeams = {tours[t].teamId : t \in found},
                   !.set = UNION {RoomSpaces(tours[t]) : t \in found}])
  /\ UNCHANGED <<teams, users, left, fresh, hist, content, external>>

\* const spaces = await getSpacesByIds(spaceIds); rooms are populated
ListToursSpaces(r) ==
  /\ At(r, "listTours", "spaces")
  /\ Respond(r, [reqs[r] EXCEPT
                   !.embTeams = {spaces[s].teamId :
                                   s \in getSpacesByIds(reqs[r].set)}], 200)
  /\ UNCHANGED <<teams, users, left, fresh, hist, content, external>>

\* POST /api/tours
PostTours(r, u, x) ==
  /\ fresh.tour <= MaxTours
  /\ Begin(r, Call("createTour", "create", u, x, 0))

\* await createTour(tour); the share token is as fresh as the id
PostToursCreate(r) ==
  /\ At(r, "createTour", "create")
  /\ fresh.tour <= MaxTours
  /\ tours' = [tours EXCEPT ![fresh.tour] = NewTour(reqs[r].tid, fresh.tour)]
  /\ fresh' = [fresh EXCEPT !.tour = @ + 1]
  /\ Respond(r, [reqs[r] EXCEPT !.ent = fresh.tour], 201)
  /\ UNCHANGED <<teams, users, spaces, left, hist, external>>

\* GET /api/tours/:id
GetTour(r, u, x, t) == Begin(r, Call("getTour", "get", u, x, t))

GetTourRead(r) ==
  /\ At(r, "getTour", "get")
  /\ LET q == reqs[r]
     IN IF TourHidden(tours[q.ent], q.tid) THEN Respond(r, q, 404)
        ELSE Goto(r, [q EXCEPT !.pc = "spaces",
                               !.tdoc = tours[q.ent],
                               !.entTeam = tours[q.ent].teamId,
                               !.set = RoomSpaces(tours[q.ent])])
  /\ UNCHANGED <<teams, users, left, fresh, hist, content, external>>

GetTourSpaces(r) ==
  /\ At(r, "getTour", "spaces")
  /\ Respond(r, [reqs[r] EXCEPT
                   !.embTeams = {spaces[s].teamId :
                                   s \in getSpacesByIds(reqs[r].set)}], 200)
  /\ UNCHANGED <<teams, users, left, fresh, hist, content, external>>

\* PATCH /api/tours/:id; the body is valid or not.
PatchTour(r, u, x, t, updates, valid) ==
  Begin(r, [Call("patchTour", "check", u, x, t) EXCEPT
              !.upd = updates, !.valid = valid])

PatchTourCheck(r) ==
  /\ At(r, "patchTour", "check")
  /\ LET q == reqs[r]
     IN IF TourHidden(tours[q.ent], q.tid) THEN Respond(r, q, 404)
        ELSE IF ~q.valid THEN Respond(r, q, 400)
        ELSE Goto(r, [q EXCEPT !.pc = "get",
                               !.entTeam = tours[q.ent].teamId])
  /\ UNCHANGED <<teams, users, left, fresh, hist, content, external>>

\* updateTour: const doc = await ref.get(); null when the tour is gone.
PatchTourGet(r) ==
  /\ At(r, "patchTour", "get")
  /\ IF ~tours[reqs[r].ent].exists
       THEN Respond(r, reqs[r], 200)
       ELSE Goto(r, [reqs[r] EXCEPT !.pc = "set",
                                    !.tdoc = tours[reqs[r].ent]])
  /\ UNCHANGED <<teams, users, left, fresh, hist, content, external>>

\* updateTour: await ref.set(merged, { merge: true })
PatchTourSet(r) ==
  /\ At(r, "patchTour", "set")
  /\ tours' = [tours EXCEPT ![reqs[r].ent] =
                 Merge(reqs[r].tdoc, reqs[r].upd)]
  /\ hist' = IF reqs[r].upd = [isPublic |-> FALSE]
               THEN [hist EXCEPT !.unshared = @ \cup {reqs[r].tdoc.shareToken}]
               ELSE hist
  /\ Respond(r, reqs[r], 200)
  /\ UNCHANGED <<teams, users, spaces, left, fresh, external>>

(***************************************************************************)
(* routes/public.ts: GET /api/t/:token, without authentication.            *)
(***************************************************************************)
\* getTourByToken(token): the tours with that share token; limit(1) returns
\* any one of them.
getTourByToken(token) ==
  {t \in TourIds : tours[t].exists /\ tours[t].shareToken = token}

\* const tour = await getTourByToken(token); if (!tour || !tour.isPublic)
PublicLookup(r, token) ==
  /\ Free(r)
  /\ left' = left - 1
  /\ LET q == [Req("public", "", 0) EXCEPT
                 !.arg = token, !.late = token \in hist.unshared]
     IN IF getTourByToken(token) = {} THEN Respond(r, q, 404)
        ELSE \E t \in getTourByToken(token) :
               IF ~tours[t].isPublic
                 THEN Respond(r, [q EXCEPT !.ent = t], 404)
                 ELSE Goto(r, [q EXCEPT !.pc = "spaces", !.ent = t,
                                        !.tdoc = tours[t],
                                        !.set = RoomSpaces(tours[t])])
  /\ UNCHANGED <<teams, users, fresh, hist, content, external>>

\* const spaces = await getSpacesByIds(spaceIds); res.json(populated)
PublicSpaces(r) ==
  /\ At(r, "public", "spaces")
  /\ Respond(r, [reqs[r] EXCEPT
                   !.embTeams = {spaces[s].teamId :
                                   s \in getSpacesByIds(reqs[r].set)}], 200)
  /\ UNCHANGED <<teams, users, left, fresh, hist, content, external>>

\* DELETE /api/tours/:id
DeleteTour(r, u, x, t) == Begin(r, Call("deleteTour", "check", u, x, t))

DeleteTourCheck(r) ==
  /\ At(r, "deleteTour", "check")
  /\ LET q == reqs[r]
     IN IF TourHidden(tours[q.ent], q.tid) THEN Respond(r, q, 404)
        ELSE Goto(r, [q EXCEPT !.pc = "delete",
                               !.entTeam = tours[q.ent].teamId])
  /\ UNCHANGED <<teams, users, left, fresh, hist, content, external>>

\* await deleteTour(id)
DeleteTourDelete(r) ==
  /\ At(r, "deleteTour", "delete")
  /\ tours' = [tours EXCEPT ![reqs[r].ent] = NoTour]
  /\ Respond(r, reqs[r], 200)
  /\ UNCHANGED <<teams, users, spaces, left, fresh, hist, external>>

\* POST /api/tours/:id/rooms: the body is parsed before the tour is read.
AddRoom(r, u, x, t, s, label, valid) ==
  /\ Free(r)
  /\ left' = left - 1
  /\ LET q == [Call("addRoom", "", u, x, t) EXCEPT
                 !.arg = s, !.label = label, !.valid = valid,
                 !.auth = MemberTeams(u),
                 !.late = <<x, s>> \in hist.deletedSpaces]
     IN IF ~resolveAuthContext(u, x) THEN Respond(r, q, 401)
        ELSE IF ~valid THEN Respond(r, q, 400)
        ELSE Goto(r, [q EXCEPT !.pc = "check"])
  /\ UNCHANGED <<teams, users, fresh, hist, content, external>>

\* const tour = await getTour(id); const order = tour.rooms.length
AddRoomCheck(r) ==
  /\ At(r, "addRoom", "check")
  /\ LET q == reqs[r]
     IN IF TourHidden(tours[q.ent], q.tid) THEN Respond(r, q, 404)
        ELSE Goto(r, [q EXCEPT !.pc = "add",
                               !.entTeam = tours[q.ent].teamId,
                               !.n = Len(tours[q.ent].rooms)])
  /\ UNCHANGED <<teams, users, left, fresh, hist, content, external>>

\* await addRoomToTour(id, { spaceId, label, order }): the transaction
AddRoomAdd(r) ==
  /\ At(r, "addRoom", "add")
  /\ LET q == reqs[r]
     IN tours' = [tours EXCEPT ![q.ent] =
                    addRoomToTour(@, [spaceId |-> q.arg, label |-> q.label,
                                      order |-> q.n])]
  /\ Respond(r, reqs[r], 200)
  /\ UNCHANGED <<teams, users, spaces, left, fresh, hist, external>>

\* DELETE /api/tours/:id/rooms?spaceId=...; s = 0 when the query has none
RemoveRoom(r, u, x, t, s) ==
  Begin(r, [Call("removeRoom", "check", u, x, t) EXCEPT !.arg = s])

RemoveRoomCheck(r) ==
  /\ At(r, "removeRoom", "check")
  /\ LET q == reqs[r]
     IN IF TourHidden(tours[q.ent], q.tid) THEN Respond(r, q, 404)
        ELSE IF q.arg = 0 THEN Respond(r, q, 400)
        ELSE Goto(r, [q EXCEPT !.pc = "remove",
                               !.entTeam = tours[q.ent].teamId])
  /\ UNCHANGED <<teams, users, left, fresh, hist, content, external>>

\* await removeRoomFromTour(id, spaceId): the transaction
RemoveRoomRemove(r) ==
  /\ At(r, "removeRoom", "remove")
  /\ tours' = [tours EXCEPT ![reqs[r].ent] =
                 removeRoomFromTour(@, reqs[r].arg)]
  /\ Respond(r, reqs[r], 200)
  /\ UNCHANGED <<teams, users, spaces, left, fresh, hist, external>>

(***************************************************************************)
(* lib/storage.ts: deleteSpaceFiles, run detached from its caller.  The    *)
(* bucket holds at most one object under each prefix of a space.           *)
(***************************************************************************)
\* const [files] = await bucket.getFiles({ prefix: `models/${spaceId}/` })
CleanupListModels(s) ==
  /\ cleanup[s] = "listModels"
  /\ cleanup' = [cleanup EXCEPT ![s] =
                   IF <<"models", s>> \in files THEN "deleteModels"
                   ELSE "listImages"]
  /\ last' = NoStep
  /\ UNCHANGED <<teams, users, content, files, operations, reqs, left,
                 fresh, hist>>

\* await Promise.all(files.map((f) => f.delete()))
CleanupDeleteModels(s) ==
  /\ cleanup[s] = "deleteModels"
  /\ files' = files \ {<<"models", s>>}
  /\ cleanup' = [cleanup EXCEPT ![s] = "listImages"]
  /\ last' = NoStep
  /\ UNCHANGED <<teams, users, content, operations, reqs, left, fresh,
                 hist>>

CleanupListImages(s) ==
  /\ cleanup[s] = "listImages"
  /\ cleanup' = [cleanup EXCEPT ![s] =
                   IF <<"images", s>> \in files THEN "deleteImages"
                   ELSE "done"]
  /\ last' = NoStep
  /\ UNCHANGED <<teams, users, content, files, operations, reqs, left,
                 fresh, hist>>

CleanupDeleteImages(s) ==
  /\ cleanup[s] = "deleteImages"
  /\ files' = files \ {<<"images", s>>}
  /\ cleanup' = [cleanup EXCEPT ![s] = "done"]
  /\ last' = NoStep
  /\ UNCHANGED <<teams, users, content, operations, reqs, left, fresh,
                 hist>>

(***************************************************************************)
(* The team routes on their own: every request of routes/teams.ts and      *)
(* routes/auth.ts that writes a team, issued by any user at any time.      *)
(***************************************************************************)
Codes == 1..MaxCodes

\* Team 1 and team 2 are the personal teams of u1 and u2 (onboarding);
\* with org, u1 has created the organization team 3 (POST /api/teams);
\* with joined, u2 has joined it by its invite code (POST /api/teams/join).
BaseTeams(org, joined) ==
  [t \in TeamIds |->
     CASE t = 1 -> NewTeam("personal", "u1", "n0", 1, FALSE)
       [] t = 2 -> NewTeam("personal", "u2", "n0", 2, FALSE)
       [] t = 3 /\ org ->
            [NewTeam("organization", "u1", "n0", 3, TRUE) EXCEPT
               !.memberIds = IF joined THEN <<"u1", "u2">> ELSE <<"u1">>]
       [] OTHER -> NoTeam]

BaseUsers(org, joined) ==
  [u \in Users |->
     IF u = "u1"
       THEN [exists |-> TRUE, onboardingComplete |-> TRUE, activeTeamId |-> 1,
             teamIds |-> IF org THEN <<1, 3>> ELSE <<1>>]
       ELSE [exists |-> TRUE, onboardingComplete |-> TRUE, activeTeamId |-> 2,
             teamIds |-> IF joined THEN <<2, 3>> ELSE <<2>>]]

BaseFresh(org) ==
  [team |-> IF org THEN 4 ELSE 3, code |-> IF org THEN 4 ELSE 3,
   space |-> 1, tour |-> 1]

\* No request is in flight and nothing has been recorded.
Quiet ==
  /\ reqs = [r \in Slots |-> Idle]
  /\ last = NoStep
  /\ hist = [retired |-> {}, deletedTeams |-> {}, unshared |-> {},
             deletedSpaces |-> {}]

NoContent ==
  /\ spaces = [s \in SpaceIds |-> NoSpace]
  /\ tours = [t \in TourIds |-> NoTour]
  /\ files = {}
  /\ operations = <<>>
  /\ cleanup = [s \in SpaceIds |-> "none"]

\* Both users have completed onboarding; u1 may have created an
\* organization team, and u2 may have joined it.
InitTeams ==
  /\ \E org \in BOOLEAN, joined \in BOOLEAN :
       /\ joined => org
       /\ teams = BaseTeams(org, joined)
       /\ users = BaseUsers(org, joined)
       /\ fresh = BaseFresh(org)
  /\ NoContent
  /\ Quiet
  /\ left = MaxReq

NextTeams ==
  \/ \E c \in Callers, valid \in BOOLEAN : Onboarding(c, valid)
  \/ \E u \in Users, name \in Names : PostTeams(u, name)
  \/ \E code \in Codes : GetTeamsJoin(code)
  \/ \E r \in Slots, u \in Users, code \in Codes : JoinLookup(r, u, code)
  \/ \E r \in Slots : JoinAddMember(r)
  \/ \E r \in Slots : JoinUpdateUser(r)
  \/ \E r \in Slots, u \in Users, t \in TeamIds, name \in Names :
       PatchTeam(r, u, t, name)
  \/ \E r \in Slots, u \in Users, t \in TeamIds : PostInvite(r, u, t)
  \/ \E r \in Slots, u \in Users, t \in TeamIds, e \in BOOLEAN :
       PatchInvite(r, u, t, e)
  \/ \E r \in Slots : updateTeamGet(r)
  \/ \E r \in Slots : updateTeamSet(r)
  \/ \E r \in Slots, u \in Users, t \in TeamIds : DeleteTeamGet(r, u, t)
  \/ \E r \in Slots : DeleteTeamSpaces(r)
  \/ \E r \in Slots : DeleteTeamTours(r)
  \/ \E r \in Slots : DeleteTeamDelete(r)
  \/ \E r \in Slots, u \in Users, t \in TeamIds : LeaveGet(r, u, t)
  \/ \E r \in Slots : LeaveRemove(r)
  \/ \E r \in Slots : LeaveUserGet(r)
  \/ \E r \in Slots : LeaveUserUpdate(r)
  \/ \E r \in Slots, u \in Users : DeleteMeOwned(r, u)
  \/ \E r \in Slots : DeleteMeMembers(r)
  \/ \E r \in Slots : DeleteMeCommit(r)

SpecTeams == InitTeams /\ [][NextTeams]_vars

(***************************************************************************)
(* Properties of teams.                                                    *)
(***************************************************************************)
IsPersonal(t) == teams[t].exists /\ teams[t].type = "personal"

\* The response to DELETE /api/teams/:id or DELETE /api/teams/:id/members
\* whose handler read a personal team the caller is a member of.
OnPersonalTeam ==
  /\ last.req.op \in {"deleteTeam", "leave"}
  /\ last.code # 0
  /\ last.req.team.type = "personal"
  /\ IsMember(last.req.team, last.req.uid)

\* C3 as stated: a personal team, once created, is never deleted and its
\* member is never removed from memberIds, by any API operation.
C3_PersonalTeamNeverDeleted ==
  [][\A t \in TeamIds :
       IsPersonal(t) =>
         /\ teams'[t].exists
         /\ Includes(teams'[t].memberIds, teams[t].ownerId)]_vars

\* C3 as amended: no step other than the batch of DELETE /api/auth/me deletes
\* a personal team or removes its owner from memberIds, and DELETE
\* /api/teams/:id and DELETE /api/teams/:id/members by a member of a
\* personal team respond 400 and leave every team unchanged.
C3_PersonalTeamKept ==
  [][/\ last'.req.op # "deleteMe" =>
          \A t \in TeamIds :
            IsPersonal(t) =>
              /\ teams'[t].exists
              /\ teams'[t].type = "personal"
              /\ Includes(teams'[t].memberIds, teams[t].ownerId)
     /\ OnPersonalTeam' => last'.code = 400 /\ teams' = teams]_vars

\* A member's DELETE on a personal team has been answered 400, and the team
\* is still there.
C3_Witness ==
  /\ OnPersonalTeam
  /\ last.code = 400
  /\ IsPersonal(last.req.tid)

\* C5: every personal team has memberIds = [ownerId].
C5_PersonalTeamOneMember ==
  \A t \in TeamIds : IsPersonal(t) => teams[t].memberIds = <<teams[t].ownerId>>

\* C6: a join or preview request that presents an invite code a completed
\* POST /api/teams/:id/invite has replaced responds 404.
C6_RotatedCodeRejected ==
  (last.req.op \in {"join", "preview"} /\ last.code # 0 /\ last.req.late)
    => last.code = 404

\* C7: no user is added to the memberIds of an existing team while that
\* team's inviteEnabled is false.
C7_NoJoinWhileDisabled ==
  [][\A t \in TeamIds, u \in Users :
       (/\ teams[t].exists
        /\ ~Includes(teams[t].memberIds, u)
        /\ teams'[t].exists
        /\ Includes(teams'[t].memberIds, u)) => teams[t].inviteEnabled]_vars

(***************************************************************************)
(* The space and tour routes, with the team requests that change who is a  *)
(* member of what (join, leave).                                           *)
(***************************************************************************)
TourUpdates(kind) ==
  CASE kind = "name" -> [name |-> "n1"]
    [] kind = "private" -> [isPublic |-> FALSE]
    [] kind = "public" -> [isPublic |-> TRUE]

\* u1 has created space 1 in the organization team 3.  Tour 1 is either
\* u2's, created in the personal team 2, or u1's, created in team 3 with
\* space 1 as its room.  u2 may have joined team 3.
InitAccess ==
  /\ \E joined \in BOOLEAN :
       /\ teams = BaseTeams(TRUE, joined)
       /\ users = BaseUsers(TRUE, joined)
  /\ fresh = [BaseFresh(TRUE) EXCEPT !.space = 2, !.tour = 2]
  /\ spaces = [s \in SpaceIds |-> IF s = 1 THEN NewSpace(3) ELSE NoSpace]
  /\ \E own \in {2, 3} :
       tours = [t \in TourIds |->
                  IF t # 1 THEN NoTour
                  ELSE IF own = 2 THEN NewTour(2, 1)
                  ELSE [NewTour(3, 1) EXCEPT
                          !.rooms = <<[spaceId |-> 1, label |-> "a",
                                       order |-> 0]>>]]
  /\ files = {}
  /\ operations = <<>>
  /\ cleanup = [s \in SpaceIds |-> "none"]
  /\ Quiet
  /\ left = MaxCalls

NextAccess ==
  \/ \E r \in Slots, u \in Users, x \in TeamIds : ListSpaces(r, u, x)
  \/ \E r \in Slots : ListSpacesQuery(r)
  \/ \E r \in Slots, u \in Users, x \in TeamIds : PostSpaces(r, u, x)
  \/ \E r \in Slots : PostSpacesCreate(r)
  \/ \E r \in Slots, u \in Users, x \in TeamIds, s \in SpaceIds :
       GetSpace(r, u, x, s)
  \/ \E r \in Slots : GetSpaceRead(r)
  \/ \E r \in Slots, u \in Users, x \in TeamIds, s \in SpaceIds,
        valid \in BOOLEAN : PatchSpace(r, u, x, s, valid)
  \/ \E r \in Slots : PatchSpaceCheck(r)
  \/ \E r \in Slots : PatchSpaceGet(r)
  \/ \E r \in Slots : PatchSpaceSet(r)
  \/ \E r \in Slots, u \in Users, x \in TeamIds, s \in SpaceIds :
       DeleteSpace(r, u, x, s)
  \/ \E r \in Slots : DeleteSpaceCheck(r)
  \/ \E r \in Slots : DeleteSpaceDelete(r)
  \/ \E r \in Slots : DeleteSpaceTours(r)
  \/ \E r \in Slots : DeleteSpaceCascade(r)
  \/ \E s \in SpaceIds : CleanupListModels(s)
  \/ \E s \in SpaceIds : CleanupListImages(s)
  \/ \E r \in Slots, u \in Users, x \in TeamIds : ListTours(r, u, x)
  \/ \E r \in Slots : ListToursQuery(r)
  \/ \E r \in Slots : ListToursSpaces(r)
  \/ \E r \in Slots, u \in Users, x \in TeamIds : PostTours(r, u, x)
  \/ \E r \in Slots : PostToursCreate(r)
  \/ \E r \in Slots, u \in Users, x \in TeamIds, t \in TourIds :
       GetTour(r, u, x, t)
  \/ \E r \in Slots : GetTourRead(r)
  \/ \E r \in Slots : GetTourSpaces(r)
  \/ \E r \in Slots, u \in Users, x \in TeamIds, t \in TourIds,
        kind \in {"name", "private"}, valid \in BOOLEAN :
       PatchTour(r, u, x, t, TourUpdates(kind), valid)
  \/ \E r \in Slots : PatchTourCheck(r)
  \/ \E r \in Slots : PatchTourGet(r)
  \/ \E r \in Slots : PatchTourSet(r)
  \/ \E r \in Slots, u \in Users, x \in TeamIds, t \in TourIds :
       DeleteTour(r, u, x, t)
  \/ \E r \in Slots : DeleteTourCheck(r)
  \/ \E r \in Slots : DeleteTourDelete(r)
  \/ \E r \in Slots, u \in Users, x \in TeamIds, t \in TourIds,
        s \in SpaceIds, valid \in BOOLEAN :
       AddRoom(r, u, x, t, s, "b", valid)
  \/ \E r \in Slots : AddRoomCheck(r)
  \/ \E r \in Slots : AddRoomAdd(r)
  \/ \E r \in Slots, u \in Users, x \in TeamIds, t \in TourIds,
        s \in SpaceIds \cup {0} : RemoveRoom(r, u, x, t, s)
  \/ \E r \in Slots : RemoveRoomCheck(r)
  \/ \E r \in Slots : RemoveRoomRemove(r)
  \/ \E r \in Slots, u \in Users, code \in Codes : JoinLookup(r, u, code)
  \/ \E r \in Slots : JoinAddMember(r)
  \/ \E r \in Slots : JoinUpdateUser(r)
  \/ \E r \in Slots, u \in Users, t \in TeamIds : LeaveGet(r, u, t)
  \/ \E r \in Slots : LeaveRemove(r)
  \/ \E r \in Slots : LeaveUserGet(r)
  \/ \E r \in Slots : LeaveUserUpdate(r)

SpecAccess == InitAccess /\ [][NextAccess]_vars

(***************************************************************************)
(* Properties of access to spaces and tours.                               *)
(***************************************************************************)
SpaceOps == {"getSpace", "patchSpace", "deleteSpace"}

TourOps == {"getTour", "patchTour", "deleteTour", "addRoom", "removeRoom"}

\* The step just taken has answered a request that names a space or a tour
\* by its id.
Answered == last.code # 0 /\ last.req.op \in SpaceOps \cup TourOps

\* The document that the request of the step just taken names, in the
\* collections ss of spaces and tt of tours.
Target(ss, tt) ==
  IF last.req.op \in SpaceOps THEN ss[last.req.ent] ELSE tt[last.req.ent]

\* The caller of the answered request was, at its auth check, no member of
\* the team of the entity it names.
Outsider(doc) == doc.exists /\ doc.teamId \notin last.req.auth

\* The response carries no entity.
NothingReturned ==
  /\ last.req.sdoc = NoSpace
  /\ last.req.tdoc = NoTour
  /\ last.req.embTeams = {}

\* Every step that changes or removes a stored space or tour belongs to a
\* request whose caller was, at its auth check, a member of the entity's
\* team.
ChangedByMembersOnly ==
  /\ \A s \in SpaceIds :
       (spaces[s].exists /\ spaces'[s] # spaces[s])
         => spaces[s].teamId \in last'.req.auth
  /\ \A t \in TourIds :
       (tours[t].exists /\ tours'[t] # tours[t])
         => tours[t].teamId \in last'.req.auth

\* A request by id succeeds only for a member: the entity it acted on is of
\* the team of x-team-id, of which the caller was a member at the auth check.
SuccessOnlyForMembers ==
  (Answered' /\ last'.code = 200 /\ last'.req.entTeam # 0)
    => /\ last'.req.entTeam = last'.req.tid
       /\ last'.req.entTeam \in last'.req.auth

\* The list endpoints return only entities of the team of x-team-id, of
\* which the caller is a member.
ListsOwnTeamOnly ==
  (last'.req.op \in {"listSpaces", "listTours"} /\ last'.code = 200)
    => /\ last'.req.retTeams \subseteq {last'.req.tid}
       /\ last'.req.tid \in last'.req.auth

\* C1 as stated: a request by id succeeds only if the caller was, at the
\* auth check, a member of the entity's team; otherwise the response is 401
\* or 404, and the entity is neither returned nor changed; the list
\* endpoints return only entities of the caller's team.
C1_MembersOnly_401_404 ==
  [][/\ SuccessOnlyForMembers
     /\ (Answered' /\ Outsider(Target(spaces, tours))')
          => /\ last'.code \in {401, 404}
             /\ NothingReturned'
     /\ ChangedByMembersOnly
     /\ ListsOwnTeamOnly]_vars

\* C1 as amended: the same, the response to an outsider being 401, 404 or,
\* for POST /api/tours/:id/rooms with an invalid body, 400.
C1_MembersOnly ==
  [][/\ SuccessOnlyForMembers
     /\ (Answered' /\ Outsider(Target(spaces, tours))')
          => /\ \/ last'.code \in {401, 404}
                \/ last'.code = 400 /\ last'.req.op = "addRoom"
                     /\ ~last'.req.valid
             /\ NothingReturned'
     /\ ChangedByMembersOnly
     /\ ListsOwnTeamOnly]_vars

\* A member of some team, but not of the entity's, has named an existing
\* space or tour by id under its own team and has been answered 404.
C1_Witness ==
  /\ Answered
  /\ Outsider(Target(spaces, tours))
  /\ last.req.tid \in last.req.auth
  /\ last.code = 404

\* C2: GET /api/tours and GET /api/tours/:id embed no space of a team the
\* caller was not a member of at the auth check.
C2_EmbeddedSpacesOfOwnTeams ==
  (last.req.op \in {"getTour", "listTours"} /\ last.code = 200)
    => last.req.embTeams \subseteq last.req.auth

(***************************************************************************)
(* The deletion of a team together with the creation of spaces and tours.  *)
(***************************************************************************)
\* u1 owns the organization team 3, which owns nothing yet; u2 may have
\* joined it.
InitOwnership ==
  /\ \E joined \in BOOLEAN :
       /\ teams = BaseTeams(TRUE, joined)
       /\ users = BaseUsers(TRUE, joined)
  /\ fresh = BaseFresh(TRUE)
  /\ NoContent
  /\ Quiet
  /\ left = MaxReq

NextOwnership ==
  \/ \E r \in Slots, u \in Users, t \in TeamIds : DeleteTeamGet(r, u, t)
  \/ \E r \in Slots : DeleteTeamSpaces(r)
  \/ \E r \in Slots : DeleteTeamTours(r)
  \/ \E r \in Slots : DeleteTeamDelete(r)
  \/ \E r \in Slots, u \in Users, x \in TeamIds : PostSpaces(r, u, x)
  \/ \E r \in Slots : PostSpacesCreate(r)
  \/ \E r \in Slots, u \in Users, x \in TeamIds : PostTours(r, u, x)
  \/ \E r \in Slots : PostToursCreate(r)

SpecOwnership == InitOwnership /\ [][NextOwnership]_vars

\* C4: no space and no tour exists whose teamId is a team that DELETE
\* /api/teams/:id has deleted.
C4_NoContentOfDeletedTeam ==
  /\ \A s \in SpaceIds :
       spaces[s].exists => spaces[s].teamId \notin hist.deletedTeams
  /\ \A t \in TourIds :
       tours[t].exists => tours[t].teamId \notin hist.deletedTeams

(***************************************************************************)
(* The rooms of a tour: POST and DELETE /api/tours/:id/rooms.              *)
(***************************************************************************)
\* u2 has created tour 1 in the personal team 2 and has either added no room
\* yet or added space 1 and then space 2.
InitRooms ==
  /\ teams = BaseTeams(FALSE, FALSE)
  /\ users = BaseUsers(FALSE, FALSE)
  /\ fresh = [BaseFresh(FALSE) EXCEPT !.tour = 2]
  /\ spaces = [s \in SpaceIds |-> NoSpace]
  /\ \E rooms \in {<<>>, <<[spaceId |-> 1, label |-> "a", order |-> 0],
                          [spaceId |-> 2, label |-> "a", order |-> 1]>>} :
       tours = [t \in TourIds |->
                  IF t = 1 THEN [NewTour(2, 1) EXCEPT !.rooms = rooms]
                  ELSE NoTour]
  /\ files = {}
  /\ operations = <<>>
  /\ cleanup = [s \in SpaceIds |-> "none"]
  /\ Quiet
  /\ left = MaxReq

NextRooms ==
  \/ \E r \in Slots, u \in Users, x \in TeamIds, t \in TourIds,
        s \in SpaceIds, label \in Labels, valid \in BOOLEAN :
       AddRoom(r, u, x, t, s, label, valid)
  \/ \E r \in Slots : AddRoomCheck(r)
  \/ \E r \in Slots : AddRoomAdd(r)
  \/ \E r \in Slots, u \in Users, x \in TeamIds, t \in TourIds,
        s \in SpaceIds \cup {0} : RemoveRoom(r, u, x, t, s)
  \/ \E r \in Slots : RemoveRoomCheck(r)
  \/ \E r \in Slots : RemoveRoomRemove(r)

SpecRooms == InitRooms /\ [][NextRooms]_vars

\* C10: the rooms of every tour are sorted by strictly increasing order; no
\* two rooms of a tour share an order.
C10_RoomsStrictlyOrdered ==
  \A t \in TourIds :
    \A i, j \in 1..Len(tours[t].rooms) :
      i < j => tours[t].rooms[i].order < tours[t].rooms[j].order

(***************************************************************************)
(* routes/generate.ts: POST /api/generate.  The request carries no image   *)
(* ("none"), one image of an allowed type ("good") or one of a type that   *)
(* is not allowed ("bad"); s = 0 when the body has no spaceId.             *)
(***************************************************************************)
Images == {"none", "good", "bad"}

Generate(r, u, x, s, imgs) ==
  /\ Free(r)
  /\ left' = left - 1
  /\ LET q == [Call("generate", "", u, x, s) EXCEPT
                 !.imgs = imgs, !.auth = MemberTeams(u)]
     IN IF ~resolveAuthContext(u, x) THEN Respond(r, q, 401)
        ELSE IF s = 0 THEN Respond(r, q, 400)
        ELSE Goto(r, [q EXCEPT !.pc = "check"])
  /\ UNCHANGED <<teams, users, fresh, hist, content, external>>

\* const space = await getSpace(spaceId), then the test of the file types
GenerateCheck(r) ==
  /\ At(r, "generate", "check")
  /\ LET q == reqs[r]
     IN IF SpaceHidden(spaces[q.ent], q.tid) THEN Respond(r, q, 404)
        ELSE IF q.imgs = "bad" THEN Respond(r, q, 400)
        ELSE Goto(r, [q EXCEPT
                        !.pc = IF q.imgs = "good" THEN "upload"
                               ELSE "provider",
                        !.entTeam = spaces[q.ent].teamId])
  /\ UNCHANGED <<teams, users, left, fresh, hist, content, external>>

\* await Promise.all(files.map(... uploadImage(`images/${spaceId}/...`))):
\* the image is stored, or file.save throws and the handler answers 500.
GenerateUpload(r) ==
  /\ At(r, "generate", "upload")
  /\ \/ /\ files' = files \cup {<<"images", reqs[r].ent>>}
        /\ Step(r, [reqs[r] EXCEPT !.pc = "urlsGet"])
     \/ /\ Respond(r, reqs[r], 500)
        /\ UNCHANGED files
  /\ UNCHANGED <<teams, users, left, fresh, hist, content, operations,
                 cleanup>>

\* updateSpace(spaceId, { originalImageUrl, imageUrls, imageCount }): the
\* ref.get(); the handler goes on when updateSpace returns null.
GenerateUrlsGet(r) ==
  /\ At(r, "generate", "urlsGet")
  /\ IF ~spaces[reqs[r].ent].exists
       THEN Goto(r, [reqs[r] EXCEPT !.pc = "provider"])
       ELSE Goto(r, [reqs[r] EXCEPT !.pc = "urlsSet",
                                    !.sdoc = spaces[reqs[r].ent]])
  /\ UNCHANGED <<teams, users, left, fresh, hist, content, external>>

\* ... and its ref.set(merged, { merge: true }); the updated fields are not
\* among those of the model.
GenerateUrlsSet(r) ==
  /\ At(r, "generate", "urlsSet")
  /\ spaces' = [spaces EXCEPT ![reqs[r].ent] = Merge(reqs[r].sdoc, <<>>)]
  /\ Step(r, [reqs[r] EXCEPT !.pc = "provider"])
  /\ UNCHANGED <<teams, users, tours, left, fresh, hist, external>>

\* operationId = await generateWorldFromImageBase64(...) or
\* generateWorldFromText(...); apiFetch throws when the provider refuses.
GenerateProvider(r) ==
  /\ At(r, "generate", "provider")
  /\ \/ /\ Len(operations) < MaxOps
        /\ operations' = Append(operations, "running")
        /\ Step(r, [reqs[r] EXCEPT !.pc = "statusGet",
                                   !.arg = Len(operations) + 1])
     \/ /\ Respond(r, reqs[r], 500)
        /\ UNCHANGED operations
  /\ UNCHANGED <<teams, users, left, fresh, hist, content, files, cleanup>>

\* updateSpace(spaceId, { operationId, status: "generating" }): ref.get()
GenerateStatusGet(r) ==
  /\ At(r, "generate", "statusGet")
  /\ IF ~spaces[reqs[r].ent].exists
       THEN Respond(r, reqs[r], 200)
       ELSE Goto(r, [reqs[r] EXCEPT !.pc = "statusSet",
                                    !.sdoc = spaces[reqs[r].ent]])
  /\ UNCHANGED <<teams, users, left, fresh, hist, content, external>>

\* ... and its ref.set(merged, { merge: true })
GenerateStatusSet(r) ==
  /\ At(r, "generate", "statusSet")
  /\ spaces' = [spaces EXCEPT ![reqs[r].ent] =
                  Merge(reqs[r].sdoc, [operationId |-> reqs[r].arg,
                                       status |-> "generating"])]
  /\ Respond(r, reqs[r], 200)
  /\ UNCHANGED <<teams, users, tours, left, fresh, hist, external>>

(***************************************************************************)
(* The generation provider.  An operation is "running" (not done) until it *)
(* ends: "done" with a response, "error" with an error, "both" with a      *)
(* response and an error, "empty" with neither.                            *)
(***************************************************************************)
Outcomes == {"done", "error", "both", "empty"}

ProviderFinish(o, outcome) ==
  /\ o \in 1..Len(operations)
  /\ operations[o] = "running"
  /\ operations' = [operations EXCEPT ![o] = outcome]
  /\ last' = NoStep
  /\ UNCHANGED <<teams, users, content, files, cleanup, reqs, left, fresh,
                 hist>>

OperationDone(o) == o # "running"
OperationResponse(o) == o \in {"done", "both"}
OperationError(o) == o \in {"error", "both"}

(***************************************************************************)
(* routes/status.ts: GET /api/status/:operationId                          *)
(***************************************************************************)
\* The assets of a generated world: one image that compressImage recompresses
\* and one binary that reuploadBinary copies.
Assets == {"thumbnail", "splat"}

\* if (operation.done && operation.response) ... if (operation.done &&
\* operation.error) ... else { done: false }
OperationOutcome_ErrorFirst(o) ==
  IF OperationDone(o) /\ OperationError(o) THEN "failed"
  ELSE IF OperationDone(o) /\ OperationResponse(o) THEN "ready"
  ELSE "pending"

OperationOutcome_NeverDone(o) ==
  "pending"

OperationOutcome(o) ==
  IF OperationDone(o) /\ OperationResponse(o) THEN "ready"
  ELSE IF OperationDone(o) /\ OperationError(o) THEN "failed"
  ELSE "pending"

\* await Promise.all(tasks) goes on when no task is left running.
AssetsSettled_First(pending) ==
  TRUE

AssetsSettled(pending) ==
  pending = {}

\* catch (err) { res.status(500).json(...) }: what the catch block leaves of
\* the space document.
StatusCatch_MarkFailed(doc) ==
  IF doc.exists THEN [doc EXCEPT !.status = "failed"] ELSE doc

StatusCatch(doc) ==
  doc

\* The handler's catch block: 500.
StatusThrow(r) ==
  /\ spaces' = [spaces EXCEPT ![reqs[r].ent] = StatusCatch(@)]
  /\ Respond(r, reqs[r], 500)

Status(r, u, x, o) ==
  Begin(r, [Call("status", "find", u, x, 0) EXCEPT !.arg = o])

\* const spaces = await getAllSpaces(ctx.teamId); spaces.find(...)
StatusFind(r) ==
  /\ At(r, "status", "find")
  /\ LET q == reqs[r]
         found == {s \in getAllSpaces(q.tid) :
                     spaces[s].operationId = q.arg}
     IN IF found = {} THEN Respond(r, q, 404)
        ELSE \E s \in found :
               Goto(r, [q EXCEPT !.pc = "operation", !.ent = s,
                                 !.entTeam = spaces[s].teamId])
  /\ UNCHANGED <<teams, users, left, fresh, hist, content, external>>

\* const operation = await getOperation(operationId), which may throw, and
\* the tests of operation.done, operation.response and operation.error.
StatusOperation(r) ==
  /\ At(r, "status", "operation")
  /\ LET q == [reqs[r] EXCEPT !.seen = operations[reqs[r].arg]]
     IN \/ /\ q.arg \in 1..Len(operations)
           /\ CASE OperationOutcome(q.seen) = "ready" ->
                     Goto(r, [q EXCEPT !.pc = "world"])
                [] OperationOutcome(q.seen) = "failed" ->
                     Goto(r, [q EXCEPT !.pc = "failedGet"])
                [] OperationOutcome(q.seen) = "pending" ->
                     Respond(r, [q EXCEPT !.body = "pending"], 200)
           /\ UNCHANGED spaces
        \/ StatusThrow(r)
  /\ UNCHANGED <<teams, users, tours, left, fresh, hist, external>>

\* const world = await getWorld(worldId), which may throw; then
\* compressAndUploadAssets starts one task for each asset of the world.
StatusWorld(r) ==
  /\ At(r, "status", "world")
  /\ \/ /\ Goto(r, [reqs[r] EXCEPT !.pc = "assets", !.pending = Assets,
                                   !.urls = {}])
        /\ UNCHANGED spaces
     \/ StatusThrow(r)
  /\ UNCHANGED <<teams, users, tours, left, fresh, hist, external>>

\* One task of compressAndUploadAssets ends.  With ok it has stored its
\* object under `models/${spaceId}/` and set its url in the result; otherwise
\* it throws, Promise.all rejects at once and the handler answers 500, while
\* the tasks still running go on in the background and store their objects
\* or not.
StatusAsset(r, a, ok) ==
  /\ At(r, "status", "assets")
  /\ a \in reqs[r].pending
  /\ LET q == reqs[r]
         rest == q.pending \ {a}
     IN IF ok
          THEN /\ files' = files \cup {<<"models", q.ent>>}
               /\ Step(r, [q EXCEPT !.pending = rest,
                                    !.urls = @ \cup {a},
                                    !.pc = IF AssetsSettled(rest)
                                             THEN "readyGet" ELSE "assets"])
               /\ UNCHANGED spaces
          ELSE /\ \/ UNCHANGED files
                  \/ /\ rest # {}
                     /\ files' = files \cup {<<"models", q.ent>>}
               /\ StatusThrow(r)
  /\ UNCHANGED <<teams, users, tours, left, fresh, hist, operations, cleanup>>

\* updateSpace(space.id, { status: "ready", worldId, ... }): ref.get()
StatusReadyGet(r) ==
  /\ At(r, "status", "readyGet")
  /\ IF ~spaces[reqs[r].ent].exists
       THEN Respond(r, [reqs[r] EXCEPT !.body = "world"], 200)
       ELSE Goto(r, [reqs[r] EXCEPT !.pc = "readySet",
                                    !.sdoc = spaces[reqs[r].ent]])
  /\ UNCHANGED <<teams, users, left, fresh, hist, content, external>>

\* ... and its ref.set(merged, { merge: true }); res.json({ done: true,
\* world }).  The world id of an operation is modelled by the operation's.
StatusReadySet(r) ==
  /\ At(r, "status", "readySet")
  /\ spaces' = [spaces EXCEPT ![reqs[r].ent] =
                  Merge(reqs[r].sdoc, [status |-> "ready",
                                       worldId |-> reqs[r].arg,
                                       assetUrls |-> reqs[r].urls])]
  /\ Respond(r, [reqs[r] EXCEPT !.body = "world"], 200)
  /\ UNCHANGED <<teams, users, tours, left, fresh, hist, external>>

\* updateSpace(space.id, { status: "failed", errorMessage }): ref.get()
StatusFailedGet(r) ==
  /\ At(r, "status", "failedGet")
  /\ IF ~spaces[reqs[r].ent].exists
       THEN Respond(r, [reqs[r] EXCEPT !.body = "error"], 200)
       ELSE Goto(r, [reqs[r] EXCEPT !.pc = "failedSet",
                                    !.sdoc = spaces[reqs[r].ent]])
  /\ UNCHANGED <<teams, users, left, fresh, hist, content, external>>

\* ... and its ref.set(merged, { merge: true }); res.json({ done: true,
\* error }).  The message of an operation's error is modelled by the
\* operation's id.
StatusFailedSet(r) ==
  /\ At(r, "status", "failedSet")
  /\ spaces' = [spaces EXCEPT ![reqs[r].ent] =
                  Merge(reqs[r].sdoc, [status |-> "failed",
                                       errorMessage |-> reqs[r].arg])]
  /\ Respond(r, [reqs[r] EXCEPT !.body = "error"], 200)
  /\ UNCHANGED <<teams, users, tours, left, fresh, hist, external>>

(***************************************************************************)
(* The life of a space: create, PATCH, generate and status poll.           *)
(***************************************************************************)
\* u1 has created space 1 in the organization team 3, which u2 has joined;
\* with gen, POST /api/generate has started operation 1 for it.
AssetSpaces(gen) ==
  [s \in SpaceIds |->
     IF s # 1 THEN NoSpace
     ELSE IF gen THEN [NewSpace(3) EXCEPT !.status = "generating",
                                          !.operationId = 1]
     ELSE NewSpace(3)]

InitGeneration ==
  /\ teams = BaseTeams(TRUE, TRUE)
  /\ users = BaseUsers(TRUE, TRUE)
  /\ fresh = [BaseFresh(TRUE) EXCEPT !.space = 2]
  /\ \E gen \in BOOLEAN :
       /\ spaces = AssetSpaces(gen)
       /\ operations = IF gen THEN <<"running">> ELSE <<>>
  /\ tours = [t \in TourIds |-> NoTour]
  /\ files = {}
  /\ cleanup = [s \in SpaceIds |-> "none"]
  /\ Quiet
  /\ left = MaxCalls

GenerateSteps ==
  \/ \E r \in Slots, u \in Users, x \in TeamIds, s \in SpaceIds \cup {0},
        imgs \in Images : Generate(r, u, x, s, imgs)
  \/ \E r \in Slots : GenerateCheck(r)
  \/ \E r \in Slots : GenerateUpload(r)
  \/ \E r \in Slots : GenerateUrlsGet(r)
  \/ \E r \in Slots : GenerateUrlsSet(r)
  \/ \E r \in Slots : GenerateProvider(r)
  \/ \E r \in Slots : GenerateStatusGet(r)
  \/ \E r \in Slots : GenerateStatusSet(r)
  \/ \E o \in 1..MaxOps, outcome \in Outcomes : ProviderFinish(o, outcome)

StatusSteps ==
  \/ \E r \in Slots, u \in Users, x \in TeamIds, o \in 1..MaxOps :
       Status(r, u, x, o)
  \/ \E r \in Slots : StatusFind(r)
  \/ \E r \in Slots : StatusOperation(r)
  \/ \E r \in Slots : StatusWorld(r)
  \/ \E r \in Slots, a \in Assets, ok \in BOOLEAN : StatusAsset(r, a, ok)
  \/ \E r \in Slots : StatusReadyGet(r)
  \/ \E r \in Slots : StatusReadySet(r)
  \/ \E r \in Slots : StatusFailedGet(r)
  \/ \E r \in Slots : StatusFailedSet(r)

NextGeneration ==
  \/ \E r \in Slots, u \in Users, x \in TeamIds : PostSpaces(r, u, x)
  \/ \E r \in Slots : PostSpacesCreate(r)
  \/ \E r \in Slots, u \in Users, x \in TeamIds, s \in SpaceIds,
        valid \in BOOLEAN : PatchSpace(r, u, x, s, valid)
  \/ \E r \in Slots : PatchSpaceCheck(r)
  \/ \E r \in Slots : PatchSpaceGet(r)
  \/ \E r \in Slots : PatchSpaceSet(r)
  \/ GenerateSteps
  \/ StatusSteps

SpecGeneration == InitGeneration /\ [][NextGeneration]_vars

\* C8: a stored status is one of uploading, generating, ready and failed; a
\* space is created uploading; a status changes only to generating, by POST
\* /api/generate, or from generating to ready or failed, by GET
\* /api/status/:operationId.
C8_StatusEdges ==
  [][\A s \in SpaceIds :
       /\ spaces'[s].exists =>
            spaces'[s].status \in {"uploading", "generating", "ready",
                                   "failed"}
       /\ (~spaces[s].exists /\ spaces'[s].exists)
            => spaces'[s].status = "uploading"
       /\ (/\ spaces[s].exists
           /\ spaces'[s].exists
           /\ spaces'[s].status # spaces[s].status)
            => \/ /\ spaces'[s].status = "generating"
                  /\ last'.req.op = "generate"
               \/ /\ spaces[s].status = "generating"
                  /\ spaces'[s].status \in {"ready", "failed"}
                  /\ last'.req.op = "status"]_vars

(***************************************************************************)
(* The deletion of a space and of its files, with generate and status      *)
(* poll requests for it in flight.                                         *)
(***************************************************************************)
\* As before, and u1 has created tour 1 in team 3 with space 1 as its room.
InitCleanup ==
  /\ teams = BaseTeams(TRUE, TRUE)
  /\ users = BaseUsers(TRUE, TRUE)
  /\ fresh = [BaseFresh(TRUE) EXCEPT !.space = 2, !.tour = 2]
  /\ \E gen \in BOOLEAN :
       /\ spaces = AssetSpaces(gen)
       /\ operations = IF gen THEN <<"running">> ELSE <<>>
  /\ tours = [t \in TourIds |->
                IF t = 1
                  THEN [NewTour(3, 1) EXCEPT
                          !.rooms = <<[spaceId |-> 1, label |-> "a",
                                       order |-> 0]>>]
                  ELSE NoTour]
  /\ files = {}
  /\ cleanup = [s \in SpaceIds |-> "none"]
  /\ Quiet
  /\ left = MaxCalls

NextCleanup ==
  \/ \E r \in Slots, u \in Users, x \in TeamIds, s \in SpaceIds :
       DeleteSpace(r, u, x, s)
  \/ \E r \in Slots : DeleteSpaceCheck(r)
  \/ \E r \in Slots : DeleteSpaceDelete(r)
  \/ \E r \in Slots : DeleteSpaceTours(r)
  \/ \E r \in Slots : DeleteSpaceCascade(r)
  \/ \E s \in SpaceIds : CleanupListModels(s)
  \/ \E s \in SpaceIds : CleanupDeleteModels(s)
  \/ \E s \in SpaceIds : CleanupListImages(s)
  \/ \E s \in SpaceIds : CleanupDeleteImages(s)
  \/ GenerateSteps
  \/ StatusSteps

SpecCleanup == InitCleanup /\ [][NextCleanup]_vars

\* C9: once DELETE /api/spaces/:id has removed a space, its deleteSpaceFiles
\* has ended and no request is in flight, no object is left under
\* models/<spaceId>/ or images/<spaceId>/.
C9_NoObjectsLeft ==
  \A s \in SpaceIds :
    (/\ cleanup[s] = "done"
     /\ ~spaces[s].exists
     /\ \A r \in Slots : reqs[r].op = "idle")
      => \A f \in files : f[2] # s

(***************************************************************************)
(* Sharing a tour: PATCH /api/tours/:id and GET /api/t/:token.  No request *)
(* sets isPublic to true.                                                  *)
(***************************************************************************)
\* u2 has created tour 1, public with share token 1, in the personal team 2
\* and has added space 1 to it.
InitSharing ==
  /\ teams = BaseTeams(FALSE, FALSE)
  /\ users = BaseUsers(FALSE, FALSE)
  /\ fresh = [BaseFresh(FALSE) EXCEPT !.space = 2, !.tour = 2]
  /\ spaces = [s \in SpaceIds |-> IF s = 1 THEN NewSpace(2) ELSE NoSpace]
  /\ tours = [t \in TourIds |->
                IF t = 1
                  THEN [NewTour(2, 1) EXCEPT
                          !.rooms = <<[spaceId |-> 1, label |-> "a",
                                       order |-> 0]>>]
                  ELSE NoTour]
  /\ files = {}
  /\ operations = <<>>
  /\ cleanup = [s \in SpaceIds |-> "none"]
  /\ Quiet
  /\ left = MaxReq

NextSharing ==
  \/ \E r \in Slots, u \in Users, x \in TeamIds, t \in TourIds,
        kind \in {"name", "private"}, valid \in BOOLEAN :
       PatchTour(r, u, x, t, TourUpdates(kind), valid)
  \/ \E r \in Slots : PatchTourCheck(r)
  \/ \E r \in Slots : PatchTourGet(r)
  \/ \E r \in Slots : PatchTourSet(r)
  \/ \E r \in Slots, token \in TourIds : PublicLookup(r, token)
  \/ \E r \in Slots : PublicSpaces(r)

SpecSharing == InitSharing /\ [][NextSharing]_vars

\* C11: GET /api/t/:token answers 200 with the tour whose shareToken is the
\* token and whose isPublic is true when it is read, and 404 otherwise; once
\* a PATCH has set isPublic to false, every later request with that token
\* answers 404; and the request changes no tour and no space.
C11_PublicOnlyWhileShared ==
  [][(last'.req.op = "public" /\ last'.code # 0) =>
       /\ content' = content
       /\ last'.code \in {200, 404}
       /\ last'.code = 200 =>
            /\ last'.req.tdoc.exists
            /\ last'.req.tdoc.isPublic
            /\ last'.req.tdoc.shareToken = last'.req.arg
       /\ last'.req.late => last'.code = 404]_vars

(***************************************************************************)
(* Properties of DELETE /api/teams/:id on organization teams.              *)
(***************************************************************************)
\* The step just taken has answered a DELETE /api/teams/:id whose handler
\* read an organization team.
OnOrganizationTeam ==
  /\ last.req.op = "deleteTeam"
  /\ last.code # 0
  /\ last.req.team.exists
  /\ last.req.team.type = "organization"

\* C12: an organization team stops existing only by a DELETE /api/teams/:id
\* of its owner; the DELETE of a member who is not the owner is answered 403
\* and that of a non-member 404, and both leave every team unchanged.
C12_OwnerControlled ==
  [][/\ \A t \in TeamIds :
          (/\ teams[t].exists
           /\ teams[t].type = "organization"
           /\ ~teams'[t].exists)
            => /\ last'.req.op = "deleteTeam"
               /\ last'.req.tid = t
               /\ last'.req.uid = teams[t].ownerId
     /\ (OnOrganizationTeam' /\ ~IsMember(last'.req.team, last'.req.uid))
          => last'.code = 404 /\ teams' = teams
     /\ (/\ OnOrganizationTeam'
         /\ IsMember(last'.req.team, last'.req.uid)
         /\ last'.req.team.ownerId # last'.req.uid)
          => last'.code = 403 /\ teams' = teams]_vars

\* A member who is not the owner has asked to delete an organization team
\* and has been answered 403; the team is still there.
C12_Witness ==
  /\ OnOrganizationTeam
  /\ IsMember(last.req.team, last.req.uid)
  /\ last.req.team.ownerId # last.req.uid
  /\ last.code = 403
  /\ teams[last.req.tid].exists

(***************************************************************************)
(* Properties of POST /api/auth/onboarding.                                *)
(***************************************************************************)
\* C13: a successful onboarding writes, in one step, a new personal team
\* owned by the caller, with the caller as its only member and invites
\* disabled, and the caller's user document with onboardingComplete true and
\* activeTeamId and teamIds naming that team, and nothing else; a request
\* without valid credentials is answered 401 and one with an invalid body
\* 400, and neither writes a team or a user document.
C13_OnboardingBatch ==
  [][last'.req.op = "onboarding" =>
       LET q == last'.req
       IN /\ ~verifyAuthToken(q.uid) <=> last'.code = 401
          /\ (verifyAuthToken(q.uid) /\ ~q.valid) <=> last'.code = 400
          /\ last'.code \in {200, 400, 401}
          /\ last'.code # 200 => teams' = teams /\ users' = users
          /\ last'.code = 200 =>
               /\ ~teams[q.tid].exists
               /\ teams'[q.tid].exists
               /\ teams'[q.tid].type = "personal"
               /\ teams'[q.tid].ownerId = q.uid
               /\ teams'[q.tid].memberIds = <<q.uid>>
               /\ teams'[q.tid].inviteEnabled = FALSE
               /\ \A t \in TeamIds \ {q.tid} : teams'[t] = teams[t]
               /\ users'[q.uid].exists
               /\ users'[q.uid].onboardingComplete
               /\ users'[q.uid].activeTeamId = q.tid
               /\ users'[q.uid].teamIds = <<q.tid>>
               /\ \A u \in Users \ {q.uid} : users'[u] = users[u]]_vars

\* An onboarding has succeeded: the caller's user document names the new
\* personal team.
C13_Witness ==
  /\ last.req.op = "onboarding"
  /\ last.code = 200
  /\ IsPersonal(last.req.tid)
  /\ users[last.req.uid].activeTeamId = last.req.tid

(***************************************************************************)
(* Properties of the cascade of DELETE /api/spaces/:id.                    *)
(***************************************************************************)
\* C14: once DELETE /api/spaces/:id has answered 200, no tour of the
\* caller's team has a room of the deleted space.
C14_NoRoomOfDeletedSpace ==
  \A d \in hist.deletedSpaces, t \in TourIds :
    (tours[t].exists /\ tours[t].teamId = d[1]) => ~HasRoom(tours[t], d[2])

(***************************************************************************)
(* Polling an operation until completion.  The client polls on a timer:    *)
(* once its polls have been sent it sends more, without end.  The calls of *)
(* the provider and the asset tasks may throw, but not forever: a call     *)
(* that is made again and again succeeds at some time, and so does the     *)
(* last asset task of a poll.  The handlers' awaited calls return.         *)
(***************************************************************************)
InitPolling ==
  /\ teams = BaseTeams(TRUE, TRUE)
  /\ users = BaseUsers(TRUE, TRUE)
  /\ fresh = [BaseFresh(TRUE) EXCEPT !.space = 2]
  /\ spaces = AssetSpaces(TRUE)
  /\ operations = <<"running">>
  /\ tours = [t \in TourIds |-> NoTour]
  /\ files = {}
  /\ cleanup = [s \in SpaceIds |-> "none"]
  /\ Quiet
  /\ left = MaxCalls

\* The client's poll timer: one more poll may be sent.
PollTimer ==
  /\ left = 0
  /\ left' = 1
  /\ last' = NoStep
  /\ UNCHANGED <<teams, users, content, external, reqs, fresh, hist>>

\* The awaited call of the poll in slot r returns or throws.
StatusStep(r) ==
  \/ StatusFind(r)
  \/ StatusOperation(r)
  \/ StatusWorld(r)
  \/ \E a \in Assets, ok \in BOOLEAN : StatusAsset(r, a, ok)
  \/ StatusReadyGet(r)
  \/ StatusReadySet(r)
  \/ StatusFailedGet(r)
  \/ StatusFailedSet(r)

NextPolling ==
  \/ \E r \in Slots, x \in {1, 3} : Status(r, "u1", x, 1)
  \/ \E r \in Slots : StatusStep(r)
  \/ \E outcome \in Outcomes : ProviderFinish(1, outcome)
  \/ PollTimer

Succeeds == last'.code # 500

PollingFairness ==
  /\ SF_vars(\E r \in Slots : Status(r, "u1", 3, 1))
  /\ WF_vars(PollTimer)
  /\ \A r \in Slots :
       /\ WF_vars(StatusStep(r))
       /\ SF_vars(StatusOperation(r) /\ Succeeds)
       /\ SF_vars(StatusWorld(r) /\ Succeeds)
       /\ \A a \in Assets :
            /\ SF_vars(StatusAsset(r, a, TRUE))
            /\ SF_vars(StatusAsset(r, a, TRUE) /\ reqs[r].pending = {a})

SpecPolling == InitPolling /\ [][NextPolling]_vars /\ PollingFairness

\* C15: a generating space whose operation is done with a response gets
\* status ready, and one whose operation is done with an error and no
\* response gets status failed: it does not stay generating forever.
C15_PolledUntilCompletion ==
  /\ (/\ spaces[1].status = "generating"
      /\ OperationDone(operations[1])
      /\ OperationResponse(operations[1]))
       ~> (spaces[1].status = "ready")
  /\ (/\ spaces[1].status = "generating"
      /\ OperationDone(operations[1])
      /\ OperationError(operations[1])
      /\ ~OperationResponse(operations[1]))
       ~> (spaces[1].status = "failed")

C15_Witness ==
  /\ spaces[1].status \in {"ready", "failed"}
  /\ last.req.op = "status"
  /\ last.req.arg = 1
  /\ last.code = 200
  /\ spaces[1].status = "ready" <=> OperationResponse(operations[1])

\* C16: a poll answered 200 maps the operation it read to the space: done
\* with a response, the space gets status ready and the world's id and the
\* body is {done: true, world}; done with an error and no response, the space
\* gets status failed and the error's message and the body is {done: true,
\* error}; otherwise the space is not modified and the body is {done: false}.
C16_OperationMapped ==
  [][(last'.req.op = "status" /\ last'.code = 200) =>
       LET q == last'.req
           space == spaces'[q.ent]
       IN CASE OperationDone(q.seen) /\ OperationResponse(q.seen) ->
                 /\ q.body = "world"
                 /\ space.status = "ready"
                 /\ space.worldId = q.arg
                 /\ spaces'[q.ent] = Merge(q.sdoc, [status |-> "ready",
                                                     worldId |-> q.arg,
                                                     assetUrls |-> q.urls])
            [] /\ OperationDone(q.seen)
               /\ OperationError(q.seen)
               /\ ~OperationResponse(q.seen) ->
                 /\ q.body = "error"
                 /\ space.status = "failed"
                 /\ space.errorMessage = q.arg
            [] OTHER ->
                 /\ q.body = "pending"
                 /\ spaces' = spaces]_vars

C16_Witness ==
  /\ last.req.op = "status"
  /\ last.code = 200
  /\ last.req.seen = "both"
  /\ last.req.body = "world"
  /\ spaces[last.req.ent].status = "ready"

\* C17: a poll writes status ready only when every asset task it started has
\* ended well, with the assets' urls in the same write and their objects
\* stored; a poll with a task still running or failed writes nothing to the
\* space.
C17_ReadyAfterAssets ==
  [][(last'.req.op = "status" /\ spaces' # spaces) =>
       LET q == last'.req
       IN /\ q.pending = {}
          /\ \A s \in SpaceIds : spaces'[s] # spaces[s] => s = q.ent
          /\ spaces'[q.ent].status = "ready" =>
               /\ q.urls = Assets
               /\ spaces'[q.ent].assetUrls = Assets
               /\ spaces'[q.ent].worldId = q.arg
               /\ <<"models", q.ent>> \in files'
               /\ last'.code = 200]_vars

\* A poll has set the space ready while another poll of the same operation
\* still has asset tasks running.
C17_Witness ==
  /\ last.req.op = "status"
  /\ last.code = 200
  /\ spaces[last.req.ent].status = "ready"
  /\ spaces[last.req.ent].assetUrls = Assets
  /\ \E r \in Slots : /\ At(r, "status", "assets")
                      /\ reqs[r].ent = last.req.ent
                      /\ reqs[r].pending # {}

\* C18: a poll in which getOperation, getWorld or an asset task throws is
\* answered 500 and has not modified the space document: no step of a poll
\* before its last updateSpace, and no step that answers 500, changes a
\* space, so the status is not set to failed and no asset url is written.
C18_ErrorLeavesSpace ==
  [][(last'.req.op = "status" /\ last'.code \in {0, 500}) =>
       /\ spaces' = spaces
       /\ last'.req.sdoc = NoSpace]_vars

\* A poll has stored one asset, its other asset task has thrown, and the
\* poll is answered 500 with the space still generating.
C18_Witness ==
  /\ last.req.op = "status"
  /\ last.code = 500
  /\ last.req.urls # {}
  /\ <<"models", last.req.ent>> \in files
  /\ spaces[last.req.ent].status = "generating"
  /\ spaces[last.req.ent].assetUrls = {}

\* C19: POST /api/generate changes the status and the operationId of a space
\* only in one write made after the provider has returned an operation id,
\* which sets status generating and that id and is answered 200; a request
\* answered 400, 404 or 500 has changed neither.
C19_GenerateWritesAfterProvider ==
  [][last'.req.op = "generate" =>
       LET q == last'.req
       IN /\ last'.code = 200 =>
               /\ spaces'[q.ent].status = "generating"
               /\ spaces'[q.ent].operationId = q.arg
          /\ \A s \in SpaceIds :
               (\/ spaces'[s].status # spaces[s].status
                \/ spaces'[s].operationId # spaces[s].operationId)
                 => /\ s = q.ent
                    /\ last'.code = 200
                    /\ q.arg \in 1..Len(operations)]_vars

(***************************************************************************)
(* Requests with and without valid credentials, sent to every endpoint     *)
(* that writes.  u1 owns the organization team 3, which has space 1        *)
(* (generating) and tour 1; u2 has its personal team 2 and may join team   *)
(* 3; no team 4 exists at first.  A team-scoped request comes from a       *)
(* caller with an x-team-id header, 0 for a request without one.           *)
(***************************************************************************)
Credentials ==
  {<<"anon", 3>>, <<"u1", 0>>, <<"u1", 4>>, <<"u1", 2>>, <<"u1", 3>>}

InitCredentials ==
  /\ teams = BaseTeams(TRUE, FALSE)
  /\ users = BaseUsers(TRUE, FALSE)
  /\ fresh = [BaseFresh(TRUE) EXCEPT !.space = 2, !.tour = 2]
  /\ spaces = AssetSpaces(TRUE)
  /\ operations = <<"running">>
  /\ tours = [t \in TourIds |->
                IF t # 1 THEN NoTour
                ELSE [NewTour(3, 1) EXCEPT
                        !.rooms = <<[spaceId |-> 1, label |-> "a",
                                     order |-> 0]>>]]
  /\ files = {}
  /\ cleanup = [s \in SpaceIds |-> "none"]
  /\ Quiet
  /\ left = MaxCalls

NextCredentials ==
  \/ \E c \in Callers : Onboarding(c, TRUE)
  \/ \E c \in Callers : PostTeams(c, "n1")
  \/ \E r \in Slots, c \in Callers, code \in Codes : JoinLookup(r, c, code)
  \/ \E r \in Slots : JoinAddMember(r)
  \/ \E r \in Slots : JoinUpdateUser(r)
  \/ \E r \in Slots, c \in Callers, t \in TeamIds : PatchTeam(r, c, t, "n1")
  \/ \E r \in Slots, c \in Callers, t \in TeamIds : PostInvite(r, c, t)
  \/ \E r \in Slots, c \in Callers, t \in TeamIds :
       PatchInvite(r, c, t, FALSE)
  \/ \E r \in Slots : updateTeamGet(r)
  \/ \E r \in Slots : updateTeamSet(r)
  \/ \E r \in Slots, c \in Callers, t \in TeamIds : DeleteTeamGet(r, c, t)
  \/ \E r \in Slots : DeleteTeamSpaces(r)
  \/ \E r \in Slots : DeleteTeamTours(r)
  \/ \E r \in Slots : DeleteTeamDelete(r)
  \/ \E r \in Slots, c \in Callers, t \in TeamIds : LeaveGet(r, c, t)
  \/ \E r \in Slots : LeaveRemove(r)
  \/ \E r \in Slots : LeaveUserGet(r)
  \/ \E r \in Slots : LeaveUserUpdate(r)
  \/ \E r \in Slots, c \in Callers : DeleteMeOwned(r, c)
  \/ \E r \in Slots : DeleteMeMembers(r)
  \/ \E r \in Slots : DeleteMeCommit(r)
  \/ \E r \in Slots, c \in Credentials : PostSpaces(r, c[1], c[2])
  \/ \E r \in Slots : PostSpacesCreate(r)
  \/ \E r \in Slots, c \in Credentials : PatchSpace(r, c[1], c[2], 1, TRUE)
  \/ \E r \in Slots : PatchSpaceCheck(r)
  \/ \E r \in Slots : PatchSpaceGet(r)
  \/ \E r \in Slots : PatchSpaceSet(r)
  \/ \E r \in Slots, c \in Credentials : DeleteSpace(r, c[1], c[2], 1)
  \/ \E r \in Slots : DeleteSpaceCheck(r)
  \/ \E r \in Slots : DeleteSpaceDelete(r)
  \/ \E r \in Slots : DeleteSpaceTours(r)
  \/ \E r \in Slots : DeleteSpaceCascade(r)
  \/ \E s \in SpaceIds : CleanupListModels(s)
  \/ \E s \in SpaceIds : CleanupDeleteModels(s)
  \/ \E s \in SpaceIds : CleanupListImages(s)
  \/ \E s \in SpaceIds : CleanupDeleteImages(s)
  \/ \E r \in Slots, c \in Credentials : PostTours(r, c[1], c[2])
  \/ \E r \in Slots : PostToursCreate(r)
  \/ \E r \in Slots, c \in Credentials :
       PatchTour(r, c[1], c[2], 1, TourUpdates("name"), TRUE)
  \/ \E r \in Slots : PatchTourCheck(r)
  \/ \E r \in Slots : PatchTourGet(r)
  \/ \E r \in Slots : PatchTourSet(r)
  \/ \E r \in Slots, c \in Credentials : DeleteTour(r, c[1], c[2], 1)
  \/ \E r \in Slots : DeleteTourCheck(r)
  \/ \E r \in Slots : DeleteTourDelete(r)
  \/ \E r \in Slots, c \in Credentials :
       AddRoom(r, c[1], c[2], 1, 1, "b", TRUE)
  \/ \E r \in Slots : AddRoomCheck(r)
  \/ \E r \in Slots : AddRoomAdd(r)
  \/ \E r \in Slots, c \in Credentials : RemoveRoom(r, c[1], c[2], 1, 1)
  \/ \E r \in Slots : RemoveRoomCheck(r)
  \/ \E r \in Slots : RemoveRoomRemove(r)
  \/ \E r \in Slots, c \in Credentials :
       Generate(r, c[1], c[2], 1, "good")
  \/ \E r \in Slots : GenerateCheck(r)
  \/ \E r \in Slots : GenerateUpload(r)
  \/ \E r \in Slots : GenerateUrlsGet(r)
  \/ \E r \in Slots : GenerateUrlsSet(r)
  \/ \E r \in Slots : GenerateProvider(r)
  \/ \E r \in Slots : GenerateStatusGet(r)
  \/ \E r \in Slots : GenerateStatusSet(r)
  \/ \E outcome \in {"done", "error"} : ProviderFinish(1, outcome)
  \/ \E r \in Slots, c \in Credentials : Status(r, c[1], c[2], 1)
  \/ \E r \in Slots : StatusStep(r)

SpecCredentials == InitCredentials /\ [][NextCredentials]_vars

TeamScopedOps ==
  {"createSpace", "patchSpace", "deleteSpace", "createTour", "patchTour",
   "deleteTour", "addRoom", "removeRoom", "generate", "status"}

\* The request of the step just taken came without valid credentials: no
\* token or cookie that verifies or, for a team-scoped endpoint, no
\* x-team-id header, or one that names no team or a team the caller was not
\* a member of.
NoCredentials(q) ==
  /\ q.op # "idle"
  /\ \/ q.uid = "anon"
     \/ q.op \in TeamScopedOps /\ q.tid \notin q.auth

C21_AccountDeletionComplete ==
  [][last'.req.op = "deleteMe" =>
       LET u == last'.req.uid
       IN /\ last'.code = 400 => UNCHANGED <<teams, users>>
          /\ last'.code = 200 =>
               /\ ~users'[u].exists
               /\ \A t \in TeamIds :
                    teams'[t].exists =>
                      /\ ~Includes(teams'[t].memberIds, u)
                      /\ teams'[t].ownerId # u]_vars

\* C22: the owner of every existing team is one of its members.
C22_OwnerIsMember ==
  \A t \in TeamIds :
    teams[t].exists => Includes(teams[t].memberIds, teams[t].ownerId)

(***************************************************************************)
(* routes/teams.ts: PUT /api/teams/active                                  *)
(***************************************************************************)
\* verifyAuthToken, the parse of the body, and const team = await
\* getTeam(teamId) with the membership test.
SwitchActive(r, u, t, valid) ==
  /\ Free(r)
  /\ left' = left - 1
  /\ LET q == [Req("switch", u, t) EXCEPT !.valid = valid]
     IN IF ~verifyAuthToken(u) THEN Respond(r, q, 401)
        ELSE IF ~valid THEN Respond(r, q, 400)
        ELSE IF ~IsMember(getTeam(t), u) THEN Respond(r, q, 404)
        ELSE Goto(r, [q EXCEPT !.pc = "update"])
  /\ UNCHANGED <<teams, users, fresh, hist, content, external>>

\* await db.collection("users").doc(uid).update({ activeTeamId }), which
\* throws when the user document is gone.
SwitchActiveUpdate(r) ==
  /\ At(r, "switch", "update")
  /\ LET q == reqs[r]
     IN IF users[q.uid].exists
          THEN /\ users' = [users EXCEPT ![q.uid].activeTeamId = q.tid]
               /\ Respond(r, q, 200)
          ELSE /\ Respond(r, q, 500)
               /\ UNCHANGED users
  /\ UNCHANGED <<teams, left, fresh, hist, content, external>>

(***************************************************************************)
(* Memberships: onboarding, create team, switch active team, join, leave,  *)
(* delete team and delete account, from the states of InitTeams.           *)
(***************************************************************************)
NextMembership ==
  \/ \E c \in Users : Onboarding(c, TRUE)
  \/ \E u \in Users : PostTeams(u, "n1")
  \/ \E r \in Slots, u \in Users, t \in TeamIds, valid \in BOOLEAN :
       SwitchActive(r, u, t, valid)
  \/ \E r \in Slots : SwitchActiveUpdate(r)
  \/ \E r \in Slots, u \in Users, code \in Codes : JoinLookup(r, u, code)
  \/ \E r \in Slots : JoinAddMember(r)
  \/ \E r \in Slots : JoinUpdateUser(r)
  \/ \E r \in Slots, u \in Users, t \in TeamIds : DeleteTeamGet(r, u, t)
  \/ \E r \in Slots : DeleteTeamSpaces(r)
  \/ \E r \in Slots : DeleteTeamTours(r)
  \/ \E r \in Slots : DeleteTeamDelete(r)
  \/ \E r \in Slots, u \in Users, t \in TeamIds : LeaveGet(r, u, t)
  \/ \E r \in Slots : LeaveRemove(r)
  \/ \E r \in Slots : LeaveUserGet(r)
  \/ \E r \in Slots : LeaveUserUpdate(r)
  \/ \E r \in Slots, u \in Users : DeleteMeOwned(r, u)
  \/ \E r \in Slots : DeleteMeMembers(r)
  \/ \E r \in Slots : DeleteMeCommit(r)

SpecMembership == InitTeams /\ [][NextMembership]_vars

\* No request is in flight.
AllAnswered == \A r \in Slots : reqs[r].op = "idle"

\* C23: the activeTeamId of every user document is null (0) or names an
\* existing team whose memberIds contain the user; stated for the states in
\* which every request has been answered.
C23_ActiveTeamValid ==
  AllAnswered =>
    \A u \in Users :
      (users[u].exists /\ users[u].activeTeamId # 0) =>
        /\ teams[users[u].activeTeamId].exists
        /\ Includes(teams[users[u].activeTeamId].memberIds, u)

\* C24: when every request has been answered, a team's id is in a user's
\* teamIds exactly when the team exists and its memberIds contain the user.
C24_MembershipRecordsAgree ==
  AllAnswered =>
    \A u \in Users, t \in TeamIds :
      users[u].exists =>
        (Includes(users[u].teamIds, t)
           <=> (teams[t].exists /\ Includes(teams[t].memberIds, u)))

\* C25: every user owns at most one personal team.
C25_OnePersonalTeam ==
  \A u \in Users :
    Cardinality({t \in TeamIds : /\ teams[t].exists
                                 /\ teams[t].type = "personal"
                                 /\ teams[t].ownerId = u}) <= 1

\* C26: a step of PATCH /api/spaces/:id changes at most the name of a space:
\* every other stored field keeps the value it had just before the write.
C26_PatchSpaceFrame ==
  [][last'.req.op = "patchSpace" =>
       \A s \in SpaceIds :
         spaces'[s] = [spaces[s] EXCEPT !.name = spaces'[s].name]]_vars

\* C27: a poll writes to a space only when the operationId stored in the
\* space at the time of the write is the polled one.
C27_PollWritesCurrentOperation ==
  [][(last'.req.op = "status" /\ spaces' # spaces) =>
       spaces[last'.req.ent].operationId = last'.req.arg]_vars

(***************************************************************************)
(* The rooms of a tour under add-room, remove-room and PATCH               *)
(* /api/tours/:id requests, from the states of InitRooms.                  *)
(***************************************************************************)
NextTourEdits ==
  \/ \E r \in Slots, u \in Users, x \in {1, 2}, s \in SpaceIds,
        label \in Labels : AddRoom(r, u, x, 1, s, label, TRUE)
  \/ \E r \in Slots : AddRoomCheck(r)
  \/ \E r \in Slots : AddRoomAdd(r)
  \/ \E r \in Slots, u \in Users, x \in {1, 2}, s \in SpaceIds :
       RemoveRoom(r, u, x, 1, s)
  \/ \E r \in Slots : RemoveRoomCheck(r)
  \/ \E r \in Slots : RemoveRoomRemove(r)
  \/ \E r \in Slots, u \in Users, x \in {1, 2},
        kind \in {"name", "private"} :
       PatchTour(r, u, x, 1, TourUpdates(kind), TRUE)
  \/ \E r \in Slots : PatchTourCheck(r)
  \/ \E r \in Slots : PatchTourGet(r)
  \/ \E r \in Slots : PatchTourSet(r)

SpecTourEdits == InitRooms /\ [][NextTourEdits]_vars

DistinctSpaces(rooms) ==
  \A i, j \in 1..Len(rooms) : rooms[i].spaceId = rooms[j].spaceId => i = j

\* C28: the rooms of every tour have pairwise distinct spaceIds, and an
\* add-room for a space that is already a room of the tour replaces that
\* room by one with the new label and order and keeps the number of rooms.
C28_SpaceOncePerTour ==
  [][/\ \A t \in TourIds : DistinctSpaces(tours'[t].rooms)
     /\ (/\ last'.req.op = "addRoom"
         /\ last'.code = 200
         /\ HasRoom(tours[last'.req.ent], last'.req.arg)) =>
          LET q == last'.req
              rooms == tours'[q.ent].rooms
          IN /\ Len(rooms) = Len(tours[q.ent].rooms)
             /\ \E i \in 1..Len(rooms) :
                  rooms[i] = [spaceId |-> q.arg, label |-> q.label,
                              order |-> q.n]]_vars

C28_Witness ==
  /\ last.req.op = "addRoom"
  /\ last.code = 200
  /\ last.req.label = "b"
  /\ Len(tours[1].rooms) = 2
  /\ \E i \in 1..2 : /\ tours[1].rooms[i].spaceId = last.req.arg
                     /\ tours[1].rooms[i].label = "b"
  /\ \E i \in 1..2 : tours[1].rooms[i].label = "a"

\* C29: a room of a tour stays a room of it until a remove-room request for
\* its space, the deletion of its space or the deletion of the tour: no
\* other step takes a room out of a tour that goes on existing.
C29_AddedRoomKept ==
  [][\A t \in TourIds, s \in SpaceIds :
       (HasRoom(tours[t], s) /\ tours'[t].exists /\ ~HasRoom(tours'[t], s))
         => \/ last'.req.op = "removeRoom" /\ last'.req.arg = s
            \/ last'.req.op = "deleteSpace" /\ last'.req.ent = s]_vars

(***************************************************************************)
(* Leaving a team beside renames, invite rotations and toggles and joins:  *)
(* u1 owns the organization team 3 and u2 has joined it.                   *)
(***************************************************************************)
InitLeave ==
  /\ teams = BaseTeams(TRUE, TRUE)
  /\ users = BaseUsers(TRUE, TRUE)
  /\ fresh = BaseFresh(TRUE)
  /\ NoContent
  /\ Quiet
  /\ left = MaxReq

NextLeave ==
  \/ \E r \in Slots, u \in Users, t \in TeamIds : LeaveGet(r, u, t)
  \/ \E r \in Slots : LeaveRemove(r)
  \/ \E r \in Slots : LeaveUserGet(r)
  \/ \E r \in Slots : LeaveUserUpdate(r)
  \/ \E r \in Slots, u \in Users, code \in Codes : JoinLookup(r, u, code)
  \/ \E r \in Slots : JoinAddMember(r)
  \/ \E r \in Slots : JoinUpdateUser(r)
  \/ \E r \in Slots, u \in Users, t \in TeamIds, name \in Names :
       PatchTeam(r, u, t, name)
  \/ \E r \in Slots, u \in Users, t \in TeamIds : PostInvite(r, u, t)
  \/ \E r \in Slots, u \in Users, t \in TeamIds, e \in BOOLEAN :
       PatchInvite(r, u, t, e)
  \/ \E r \in Slots : updateTeamGet(r)
  \/ \E r \in Slots : updateTeamSet(r)

SpecLeave == InitLeave /\ [][NextLeave]_vars

\* C30: when DELETE /api/teams/:id/members answers 200 the caller is not in
\* the team's memberIds, and a user who is not in a team's memberIds gets
\* into them only by the addMemberToTeam of that user's own join; so a
\* request of the user with that x-team-id is answered 401 until then.
C30_LeaveRevokesAccess ==
  [][/\ (last'.req.op = "leave" /\ last'.code = 200) =>
          ~Includes(teams'[last'.req.tid].memberIds, last'.req.uid)
     /\ \A t \in TeamIds, u \in Users :
          (/\ teams[t].exists
           /\ ~Includes(teams[t].memberIds, u)
           /\ Includes(teams'[t].memberIds, u))
            => \E r \in Slots : /\ At(r, "join", "add")
                                /\ reqs[r].uid = u
                                /\ reqs[r].tid = t
                                /\ reqs'[r].pc = "user"]_vars
====
